---- MODULE Spec2Model ----
(***************************************************************************)
(* csbase: a single-node relational store.  The model covers the typed     *)
(* value codec (engine/asl.rs), the slotted page and item codec            *)
(* (engine/pages.rs), the table file engine and the catalog file           *)
(* (engine/fs.rs) and the statement executor (engine/db.rs).               *)
(*                                                                         *)
(* Bytes are integers 0..255, byte strings are sequences of bytes, a file  *)
(* is a flat byte string.  A Rust panic (slice out of range, unwrap of an  *)
(* error) ends the process.                                                *)
(***************************************************************************)
EXTENDS Integers, Sequences, FiniteSets, TLC

(***************************************************************************)
(* Program constants (engine/pages.rs).                                    *)
(***************************************************************************)
PAGE_SIZE == 8 * 1024
USIZE_SIZE == 8
U32_SIZE == 4
PAGE_DATA_SIZE == PAGE_SIZE - U32_SIZE - USIZE_SIZE * 2

(***************************************************************************)
(* State.                                                                  *)
(*   overflow_checks   the build: TRUE when integer overflow panics (the   *)
(*                     debug profile), FALSE when it wraps (release)       *)
(*   db_definition     the tables map of the running Database              *)
(*   data_files        the <name>_data.csbase files on disk: name -> bytes *)
(*   definitions_file  tables.def on disk: absent, written (its entries),  *)
(*                     or truncated by a store that failed while writing   *)
(*   running           whether the process is alive (a panic ends it)      *)
(*   result            what the last call returned, and the file-system    *)
(*                     outcome io it ran under                             *)
(*   inserted          history: per table, the records passed to           *)
(*                     insert_record by the INSERTs that returned Ok since *)
(*                     the data file was created                           *)
(*   dropped           history: per table, "dropped" when a DROP TABLE     *)
(*                     removed it and no CREATE TABLE has added it to the  *)
(*                     catalog since, "created_again" once one has         *)
(*   short_writes      history: the number of writes of insert_record that *)
(*                     stored fewer bytes than the page has                *)
(*   expression, identifier_values, evaluated                              *)
(*                     an expression, the binding it is evaluated with,    *)
(*                     and what Expression::evaluate returned for them     *)
(*   current_schema, current_page                                          *)
(*                     a table's columns and a Page in memory              *)
(*   last_record, add_result                                               *)
(*                     the record of the last add_item on that page and    *)
(*                     what add_item returned                              *)
(*   page_records      history: the records whose add_item returned Ok     *)
(*   read_back         what get_items and to_record last gave for the page *)
(***************************************************************************)
VARIABLE overflow_checks

(***************************************************************************)
(* Big-endian integer codecs.  Model integers are below 2^31, so the four  *)
(* high bytes of a machine word are zero when it is written.  A word read  *)
(* back with a high byte set is 2^31 or more, which no model integer       *)
(* holds: usize_from_be_bytes has no value on it, and usize_in_range tells *)
(* the two cases apart.  The engine itself writes only offsets, sizes and  *)
(* lengths below PAGE_SIZE.                                                *)
(***************************************************************************)
u32_to_be_bytes(n) ==
    << (n \div 16777216) % 256, (n \div 65536) % 256, (n \div 256) % 256, n % 256 >>

u32_from_be_bytes(b) ==
    b[1] * 16777216 + b[2] * 65536 + b[3] * 256 + b[4]

usize_to_be_bytes(n) == << 0, 0, 0, 0 >> \o u32_to_be_bytes(n)

usize_in_range(b) ==
    b[1] = 0 /\ b[2] = 0 /\ b[3] = 0 /\ b[4] = 0 /\ b[5] < 128

usize_from_be_bytes(b) ==
    CASE usize_in_range(b) -> u32_from_be_bytes(SubSeq(b, 5, 8))

\* i32 as two's complement, big endian.
i32_to_be_bytes(v) ==
    IF v >= 0 THEN u32_to_be_bytes(v)
    ELSE LET m == (v + 2147483647) + 1     \* v + 2^31, in 0 .. 2^31 - 1
         IN  << 128 + (m \div 16777216), (m \div 65536) % 256,
                (m \div 256) % 256, m % 256 >>

i32_from_be_bytes(b) ==
    (IF b[1] >= 128 THEN b[1] - 256 ELSE b[1]) * 16777216
        + b[2] * 65536 + b[3] * 256 + b[4]

\* utils.rs copy_bytes_into: overwrite copy_into_slice at offset (0-based).
\* Nothing is indexed when slice_to_copy is empty; an element written past
\* the end of copy_into_slice panics (index out of bounds), and there the
\* operator has no value.
copy_bytes_into(copy_into_slice, slice_to_copy, offset) ==
    CASE Len(slice_to_copy) = 0 -> copy_into_slice
      [] Len(slice_to_copy) > 0 /\ offset + Len(slice_to_copy) <= Len(copy_into_slice) ->
           SubSeq(copy_into_slice, 1, offset)
               \o slice_to_copy
               \o SubSeq(copy_into_slice, offset + Len(slice_to_copy) + 1,
                         Len(copy_into_slice))

\* Rust's slice[a..b] (0-based, end exclusive) of a sequence.  A range that
\* starts after its end, or ends past the sequence, panics, and there the
\* operator has no value.
Slice(s, a, b) ==
    CASE 0 <= a /\ a <= b /\ b <= Len(s) -> SubSeq(s, a + 1, b)

Zeros(n) == [i \in 1..n |-> 0]

(***************************************************************************)
(* Values and types (engine/asl.rs).  A value is its tag t and a payload v *)
(* that is always a sequence of integers: the i32 of an Int, 1 or 0 for a  *)
(* Bool, the four big-endian IEEE-754 bytes of a Float, the UTF-8 bytes of *)
(* a Str, nothing for Null.                                                *)
(***************************************************************************)
Value_Int(v) == [t |-> "Int", v |-> << v >>]
Value_Str(s) == [t |-> "Str", v |-> s]
Value_Bool(b) == [t |-> "Bool", v |-> << IF b THEN 1 ELSE 0 >>]
Value_Float(bits) == [t |-> "Float", v |-> bits]
Value_Null == [t |-> "Null", v |-> << >>]

int_of(value) == value.v[1]
bool_of(value) == value.v[1] = 1

get_type(value) == value.t

has_type(value, value_type) ==
    \/ get_type(value) = "Str" /\ value_type = "Str"
    \/ get_type(value) = "Bool" /\ value_type = "Bool"
    \/ get_type(value) = "Int" /\ value_type = "Int"
    \/ get_type(value) = "Float" /\ value_type = "Float"

value_to_be_bytes(value) ==
    CASE value.t = "Str" -> value.v
      [] value.t = "Int" -> i32_to_be_bytes(int_of(value))
      [] value.t = "Float" -> value.v
      [] value.t = "Bool" -> << IF bool_of(value) THEN 1 ELSE 0 >>

\* String::from_utf8: whether the bytes are well-formed UTF-8 (unwrap() of
\* the error panics, see ToRecordFrom).  A sequence is a lead byte and the
\* continuation bytes 80..BF its length asks for; the second byte is held to
\* a narrower range after E0, ED, F0 and F4, which rules out overlong forms,
\* surrogates and code points above 10FFFF.  C0, C1 and F5..FF lead nothing.
utf8_is_continuation(byte) == 128 <= byte /\ byte <= 191

utf8_sequence_length(byte) ==
    CASE byte <= 127 -> 1
      [] 194 <= byte /\ byte <= 223 -> 2
      [] 224 <= byte /\ byte <= 239 -> 3
      [] 240 <= byte /\ byte <= 244 -> 4
      [] OTHER -> 0

\* The range of the byte that follows this lead byte.
utf8_second_low(lead) ==
    CASE lead = 224 -> 160 [] lead = 240 -> 144 [] OTHER -> 128
utf8_second_high(lead) ==
    CASE lead = 237 -> 159 [] lead = 244 -> 143 [] OTHER -> 191

\* The byte at i (1-based) leads a well-formed sequence.
utf8_leads(bytes, i) ==
    /\ utf8_sequence_length(bytes[i]) > 0
    /\ i + utf8_sequence_length(bytes[i]) - 1 <= Len(bytes)
    /\ utf8_sequence_length(bytes[i]) > 1 =>
          /\ utf8_second_low(bytes[i]) <= bytes[i + 1]
          /\ bytes[i + 1] <= utf8_second_high(bytes[i])
    /\ \A j \in (i + 2)..(i + utf8_sequence_length(bytes[i]) - 1) :
          utf8_is_continuation(bytes[j])

\* The continuation byte at i belongs to the sequence of a lead byte before it.
utf8_continues(bytes, i) ==
    \E k \in 1..3 :
        /\ i - k >= 1
        /\ utf8_sequence_length(bytes[i - k]) > k
        /\ \A j \in (i - k + 1)..(i - 1) : utf8_is_continuation(bytes[j])

\* A byte up to 7F is a sequence of its own.
utf8_valid(bytes) ==
    \A i \in 1..Len(bytes) :
        \/ bytes[i] <= 127
        \/ IF utf8_is_continuation(bytes[i]) THEN utf8_continues(bytes, i)
           ELSE utf8_leads(bytes, i)

\* Value::from_be_bytes.  String::from_utf8(bytes).unwrap() panics on bytes
\* that are not UTF-8, and there the operator has no value.
value_from_be_bytes(bytes, value_type) ==
    CASE value_type = "Str" /\ utf8_valid(bytes) -> Value_Str(bytes)
      [] value_type = "Bool" -> Value_Bool(bytes[1] = 1)
      [] value_type = "Int" -> Value_Int(i32_from_be_bytes(bytes))
      [] value_type = "Float" -> Value_Float(SubSeq(bytes, 1, 4))

(***************************************************************************)
(* Item codec (engine/pages.rs).  null_map is the BitVec as a sequence of  *)
(* booleans, bit 0 first.                                                  *)
(***************************************************************************)
get_null_map_length_floor(number_of_fields) == number_of_fields \div 8
get_null_map_length(number_of_fields) ==
    number_of_fields \div 8 + (IF number_of_fields % 8 = 0 THEN 0 ELSE 1)

\* BitVec::to_bytes: bit i is bit 7 - i % 8 of byte i / 8, padding bits are 0.
BitWeight(k) == CASE k = 0 -> 128 [] k = 1 -> 64 [] k = 2 -> 32 [] k = 3 -> 16
                  [] k = 4 -> 8 [] k = 5 -> 4 [] k = 6 -> 2 [] k = 7 -> 1

RECURSIVE ByteOfBits(_, _, _)
ByteOfBits(bits, byte, k) ==
    IF k > 7 THEN 0
    ELSE (IF byte * 8 + k + 1 <= Len(bits) /\ bits[byte * 8 + k + 1]
          THEN BitWeight(k) ELSE 0) + ByteOfBits(bits, byte, k + 1)

bitvec_to_bytes(bits) ==
    [b \in 1..get_null_map_length(Len(bits)) |-> ByteOfBits(bits, b - 1, 0)]

\* BitVec::from_bytes: 8 bits per byte, most significant first.
bitvec_from_bytes(bytes) ==
    [i \in 1..(8 * Len(bytes)) |->
        (bytes[(i - 1) \div 8 + 1] \div BitWeight((i - 1) % 8)) % 2 = 1]

\* BitVec::get: None past the end.
bitvec_get(bits, idx) == IF idx < Len(bits) THEN bits[idx + 1] ELSE FALSE

RECURSIVE FieldData(_, _)
FieldData(values, idx) ==
    IF idx > Len(values) THEN << >>
    ELSE LET value == values[idx]
             value_bytes ==
                 CASE value.t = "Str" ->
                        usize_to_be_bytes(Len(value.v)) \o value_to_be_bytes(value)
                   [] value.t = "Null" -> << >>
                   [] OTHER -> value_to_be_bytes(value)
         IN  value_bytes \o FieldData(values, idx + 1)

item_from_record(record) ==
    [ number_of_fields |-> Len(record),
      null_map |-> [i \in 1..Len(record) |-> record[i].t = "Null"],
      field_data |-> FieldData(record, 1) ]

item_to_page_data(item) ==
    usize_to_be_bytes(item.number_of_fields)
        \o bitvec_to_bytes(item.null_map)
        \o item.field_data

item_from_page_data(page_data) ==
    LET number_of_fields == usize_from_be_bytes(Slice(page_data, 0, USIZE_SIZE))
        null_map_length == get_null_map_length(number_of_fields)
    IN  [ number_of_fields |-> number_of_fields,
          null_map |-> bitvec_from_bytes(
                         Slice(page_data, USIZE_SIZE, USIZE_SIZE + null_map_length)),
          field_data |-> Slice(page_data, USIZE_SIZE + null_map_length, Len(page_data)) ]

\* to_record's loop over the table's columns, from column idx (1-based) with
\* the read offset and the values pushed so far.  A slice past the end of
\* field_data, or a string that is not UTF-8, panics: the result is
\* [panic |-> TRUE], else [panic |-> FALSE, values |-> the record's values].
Panicked == [panic |-> TRUE, values |-> << >>]

RECURSIVE ToRecordFrom(_, _, _, _, _)
ToRecordFrom(item, columns, idx, offset, values) ==
    IF idx > Len(columns) THEN [panic |-> FALSE, values |-> values]
    ELSE IF bitvec_get(item.null_map, idx - 1)
    THEN ToRecordFrom(item, columns, idx + 1, offset, Append(values, Value_Null))
    ELSE LET column_type == columns[idx].column_type
             is_str == column_type = "Str"
             prefix_ok == Len(item.field_data) - offset >= USIZE_SIZE
             prefix == Slice(item.field_data, offset, offset + USIZE_SIZE)
             data_offset == IF is_str THEN offset + USIZE_SIZE ELSE offset
             size == CASE is_str -> usize_from_be_bytes(prefix)
                       [] column_type = "Int" -> 4
                       [] column_type = "Float" -> 4
                       [] column_type = "Bool" -> 1
             bytes == Slice(item.field_data, data_offset, data_offset + size)
         IN  IF is_str /\ ~prefix_ok THEN Panicked
             ELSE IF is_str /\ ~usize_in_range(prefix) THEN Panicked
             ELSE IF size > Len(item.field_data) - data_offset THEN Panicked
             ELSE IF is_str /\ ~utf8_valid(bytes) THEN Panicked
             ELSE ToRecordFrom(item, columns, idx + 1, data_offset + size,
                               Append(values, value_from_be_bytes(bytes, column_type)))

item_to_record(item, table) == ToRecordFrom(item, table.columns, 1, 0, << >>)

(***************************************************************************)
(* Page (engine/pages.rs).                                                 *)
(***************************************************************************)
page_new(id) ==
    [ id |-> id, free_space_start |-> 0, free_space_end |-> PAGE_DATA_SIZE,
      data |-> Zeros(PAGE_DATA_SIZE) ]

page_from_bytes(bytes) ==
    [ id |-> u32_from_be_bytes(Slice(bytes, 0, U32_SIZE)),
      free_space_start |->
          usize_from_be_bytes(Slice(bytes, U32_SIZE, U32_SIZE + USIZE_SIZE)),
      free_space_end |->
          usize_from_be_bytes(Slice(bytes, U32_SIZE + USIZE_SIZE, U32_SIZE + 2 * USIZE_SIZE)),
      data |-> Slice(bytes, U32_SIZE + 2 * USIZE_SIZE,
                     U32_SIZE + 2 * USIZE_SIZE + PAGE_DATA_SIZE) ]

page_to_bytes(page) ==
    copy_bytes_into(
      copy_bytes_into(
        copy_bytes_into(
          copy_bytes_into(Zeros(PAGE_SIZE), u32_to_be_bytes(page.id), 0),
          usize_to_be_bytes(page.free_space_start), U32_SIZE),
        usize_to_be_bytes(page.free_space_end), U32_SIZE + USIZE_SIZE),
      page.data, U32_SIZE + 2 * USIZE_SIZE)

RECURSIVE OffsetsFrom(_, _)
OffsetsFrom(page, current_offset) ==
    IF current_offset < page.free_space_start
    THEN LET size_offset == current_offset + USIZE_SIZE
             size_end == size_offset + USIZE_SIZE
         IN  << << usize_from_be_bytes(Slice(page.data, current_offset, size_offset)),
                   usize_from_be_bytes(Slice(page.data, size_offset, size_end)) >> >>
                 \o OffsetsFrom(page, size_end)
    ELSE << >>

get_item_offset_and_sizes(page) == OffsetsFrom(page, 0)

get_items(page) ==
    LET slots == get_item_offset_and_sizes(page)
    IN  [i \in 1..Len(slots) |->
            item_from_page_data(Slice(page.data, slots[i][1], slots[i][1] + slots[i][2]))]

\* get_item_offset_and_sizes reads a slot of two words at 0, 16, 32, ..
\* while the offset is below free_space_start: the index of a slot that
\* ends past the body is out of bounds.
slots_end(page) ==
    ((page.free_space_start + USIZE_SIZE * 2 - 1) \div (USIZE_SIZE * 2)) * (USIZE_SIZE * 2)

\* Item::from_page_data panics on page data shorter than its count word and
\* the null map that the count asks for.  (A count at or above 2^31 asks for
\* more null-map bytes than a page has.)
from_page_data_panics(page_data) ==
    \/ Len(page_data) < USIZE_SIZE
    \/ ~usize_in_range(SubSeq(page_data, 1, USIZE_SIZE))
    \/ USIZE_SIZE + get_null_map_length(usize_from_be_bytes(SubSeq(page_data, 1, USIZE_SIZE)))
          > Len(page_data)

\* get_items on the slot at current_offset: data[offset..offset + size] is
\* out of bounds (also when a word is 2^31 or more), or from_page_data
\* panics on it.
slot_range_panics(page, offset_word, size_word) ==
    \/ ~usize_in_range(offset_word)
    \/ ~usize_in_range(size_word)
    \/ usize_from_be_bytes(offset_word) > PAGE_DATA_SIZE
    \/ usize_from_be_bytes(size_word) > PAGE_DATA_SIZE - usize_from_be_bytes(offset_word)
    \/ from_page_data_panics(
           SubSeq(page.data, usize_from_be_bytes(offset_word) + 1,
                  usize_from_be_bytes(offset_word) + usize_from_be_bytes(size_word)))

slot_panics(page, current_offset) ==
    slot_range_panics(page,
                      SubSeq(page.data, current_offset + 1, current_offset + USIZE_SIZE),
                      SubSeq(page.data, current_offset + USIZE_SIZE + 1,
                             current_offset + USIZE_SIZE * 2))

\* get_items collects every item before it returns: it panics when reading
\* the slots or building any item panics.
get_items_panics(page) ==
    \/ slots_end(page) > PAGE_DATA_SIZE
    \/ \E k \in 0..(slots_end(page) \div (USIZE_SIZE * 2) - 1) :
          slot_panics(page, k * USIZE_SIZE * 2)

\* free_space_end - free_space_start on usize.  With free_space_end below
\* free_space_start the subtraction overflows: the build with overflow checks
\* panics, the build without them wraps to 2^64 minus the difference, which
\* no model integer holds.  The operator has no value there; add_item tells
\* that case apart before it asks.
get_free_space(page) ==
    CASE page.free_space_start <= page.free_space_end ->
           page.free_space_end - page.free_space_start

\* The test add_item makes before it touches the page.
not_enough_space_one_word(item_size, page) == item_size + USIZE_SIZE > get_free_space(page)
not_enough_space(item_size, page) == item_size + USIZE_SIZE * 2 > get_free_space(page)

\* add_item goes on to write: the test lets the item in, or the free space
\* wrapped (without overflow checks) to a number above every item size.
add_item_writes(item_size, page) ==
    \/ page.free_space_start > page.free_space_end
    \/ ~not_enough_space(item_size, page)

\* add_item panics: on the subtraction of get_free_space under overflow
\* checks, on free_space_end - item_size below zero (the subtraction under
\* overflow checks, the index it wraps to without them), or on a slot or an
\* item written past the body.
add_item_panics(item_size, page) ==
    \/ page.free_space_start > page.free_space_end /\ overflow_checks
    \/ /\ add_item_writes(item_size, page)
       /\ \/ item_size > page.free_space_end
          \/ page.free_space_start + USIZE_SIZE * 2 > PAGE_DATA_SIZE
          \/ page.free_space_end > PAGE_DATA_SIZE

\* The page after add_item wrote the slot at the first free slot position
\* / at free_space_start, and the item below free_space_end.
page_with_item_first_slot(page, item_data) ==
    [ id |-> page.id,
      free_space_start |-> page.free_space_start + USIZE_SIZE * 2,
      free_space_end |-> page.free_space_end - Len(item_data),
      data |-> copy_bytes_into(
                   copy_bytes_into(
                       copy_bytes_into(page.data,
                                       usize_to_be_bytes(page.free_space_end - Len(item_data)),
                                       0),
                       usize_to_be_bytes(Len(item_data)), USIZE_SIZE),
                   item_data, page.free_space_end - Len(item_data)) ]
page_with_item(page, item_data) ==
    [ id |-> page.id,
      free_space_start |-> page.free_space_start + USIZE_SIZE * 2,
      free_space_end |-> page.free_space_end - Len(item_data),
      data |-> copy_bytes_into(
                   copy_bytes_into(
                       copy_bytes_into(page.data,
                                       usize_to_be_bytes(page.free_space_end - Len(item_data)),
                                       page.free_space_start),
                       usize_to_be_bytes(Len(item_data)),
                       page.free_space_start + USIZE_SIZE),
                   item_data, page.free_space_end - Len(item_data)) ]

\* add_item: a panic, or [ok |-> FALSE] for PagingError::NotEnoughSpace with
\* the page as it was, or the page after the item and its slot were written.
AddPanicked(page) == [panic |-> TRUE, ok |-> FALSE, page |-> page]
NotAdded(page) == [panic |-> FALSE, ok |-> FALSE, page |-> page]
Added(page) == [panic |-> FALSE, ok |-> TRUE, page |-> page]

add_item_first_slot(page, item) ==
    IF add_item_panics(Len(item_to_page_data(item)), page) THEN AddPanicked(page)
    ELSE IF ~add_item_writes(Len(item_to_page_data(item)), page) THEN NotAdded(page)
    ELSE Added(page_with_item_first_slot(page, item_to_page_data(item)))
add_item(page, item) ==
    IF add_item_panics(Len(item_to_page_data(item)), page) THEN AddPanicked(page)
    ELSE IF ~add_item_writes(Len(item_to_page_data(item)), page) THEN NotAdded(page)
    ELSE Added(page_with_item(page, item_to_page_data(item)))
(***************************************************************************)
(* Results.  Rust's Result<T, QueryError>: Ok carries the value, Err the   *)
(* QueryError variant and its message.  A call that panics returns         *)
(* nothing: Panic stands for its unwinding, with the panic message.        *)
(***************************************************************************)
Ok(v) == [ok |-> TRUE, value |-> v, err |-> "", msg |-> ""]
Err(variant, message) == [ok |-> FALSE, value |-> Value_Null, err |-> variant, msg |-> message]
Panic(message) == [ok |-> FALSE, value |-> Value_Null, err |-> "Panic", msg |-> message]

(***************************************************************************)
(* f32 values as their four big-endian IEEE-754 bytes.  A finite f32 is    *)
(* (-1)^sign * m * 2^k, with m = f32_significand and k = f32_lsb_exponent. *)
(* `as f32` and each f32 operation return the f32 nearest to the exact     *)
(* result, ties to even: f32_round does that one rounding, subnormal       *)
(* results and overflow to an infinity included, and no intermediate value *)
(* leaves the 32-bit integers.  An operation on an infinity or a NaN       *)
(* follows IEEE-754: a NaN operand gives that NaN with its quiet bit set   *)
(* (the first operand's when both are NaN), and an invalid operation (0/0, *)
(* inf/inf, inf*0, inf-inf) gives the default NaN of the x86-64 target,    *)
(* FFC00000; other targets give 7FC00000.                                  *)
(***************************************************************************)
Abs(n) == IF n < 0 THEN -n ELSE n

RECURSIVE Pow2(_)
Pow2(k) == IF k = 0 THEN 1 ELSE 2 * Pow2(k - 1)

\* The number of binary digits of q.
RECURSIVE BitLength(_)
BitLength(q) == IF q = 0 THEN 0 ELSE 1 + BitLength(q \div 2)

f32_sign(bits) == bits[1] \div 128
f32_exp(bits) == (bits[1] % 128) * 2 + bits[2] \div 128
f32_frac(bits) == (bits[2] % 128) * 65536 + bits[3] * 256 + bits[4]

f32_is_nan(bits) == f32_exp(bits) = 255 /\ f32_frac(bits) # 0
f32_is_inf(bits) == f32_exp(bits) = 255 /\ f32_frac(bits) = 0

\* A Float that is +0.0 or -0.0.
f32_is_zero(bits) == bits[1] % 128 = 0 /\ bits[2] = 0 /\ bits[3] = 0 /\ bits[4] = 0

f32_zero(sign) == << sign * 128, 0, 0, 0 >>
f32_inf(sign) == << sign * 128 + 127, 128, 0, 0 >>

f32_default_nan == << 255, 192, 0, 0 >>

\* The NaN with its quiet bit, the top bit of the fraction, set.
f32_quiet(bits) ==
    << bits[1], (bits[2] \div 128) * 128 + 64 + (bits[2] % 64), bits[3], bits[4] >>

\* What an operation with a NaN operand returns.
f32_nan_of(bits1, bits2) ==
    IF f32_is_nan(bits1) THEN f32_quiet(bits1) ELSE f32_quiet(bits2)

\* The sign bit of a product or quotient.
f32_sign_xor(bits1, bits2) == IF f32_sign(bits1) # f32_sign(bits2) THEN 1 ELSE 0

\* Of a finite f32: the integer m and the exponent k of m * 2^k.
f32_significand(bits) ==
    IF f32_exp(bits) = 0 THEN f32_frac(bits) ELSE 8388608 + f32_frac(bits)

f32_lsb_exponent(bits) == IF f32_exp(bits) = 0 THEN -149 ELSE f32_exp(bits) - 150

RECURSIVE StripZeros(_, _)
StripZeros(m, k) ==
    IF m % 2 = 0 THEN StripZeros(m \div 2, k + 1) ELSE [m |-> m, k |-> k]

\* Of a finite f32 of sign s whose value is mant * 2^k.
f32_odd_part(s, mant, k) ==
    IF mant = 0 THEN [s |-> s, m |-> 0, k |-> 0]
    ELSE [s |-> s, m |-> StripZeros(mant, k).m, k |-> StripZeros(mant, k).k]

\* Of a finite f32: its sign s, and m * 2^k with m odd (or 0).
f32_parts(bits) ==
    f32_odd_part(f32_sign(bits), f32_significand(bits), f32_lsb_exponent(bits))

\* The four bytes of the f32 with that sign, biased exponent and 23-bit
\* fraction.
f32_pack(sign, biased, frac) ==
    << sign * 128 + biased \div 2,
       (biased % 2) * 128 + frac \div 65536,
       (frac \div 256) % 256,
       frac % 256 >>

\* The f32 m * 2^k, of a rounded m: below 2^23 it is zero or subnormal and
\* k is -149, and an m that rounding carried to 2^24 is 2^23 at the next
\* exponent.  An exponent above 127 overflows to an infinity.
f32_encode(sign, m, k) ==
    IF m < 8388608 THEN f32_pack(sign, 0, m)
    ELSE IF m = 16777216
    THEN (IF k + 151 >= 255 THEN f32_inf(sign) ELSE f32_pack(sign, k + 151, 0))
    ELSE IF k + 150 >= 255 THEN f32_inf(sign)
    ELSE f32_pack(sign, k + 150, m - 8388608)

\* The quotient q with remainder r of a division by den, rounded to the
\* nearest integer, ties to even.
round_half_even(q, r, den) ==
    IF r > den - r \/ (r = den - r /\ q % 2 = 1) THEN q + 1 ELSE q

\* (q + r / den) / unit rounded to the nearest integer, ties to even, for
\* unit = 2^t, 0 < t <= 30, and 0 <= r < den.
round_shift(q, r, unit) ==
    IF q % unit > unit \div 2
       \/ (q % unit = unit \div 2 /\ (r > 0 \/ (q \div unit) % 2 = 1))
    THEN q \div unit + 1
    ELSE q \div unit

\* (q + r / den) / 2^t rounded, for any t; a t below 0 is an exact shift to
\* the left, of a q with r = 0.
f32_rounded(q, r, den, t) ==
    CASE t < 0 -> q * Pow2(-t)
      [] t = 0 -> round_half_even(q, r, den)
      [] t > 0 /\ t <= 30 -> round_shift(q, r, Pow2(t))
      [] t = 31 -> (IF q > Pow2(30) \/ (q = Pow2(30) /\ r > 0) THEN 1 ELSE 0)
      [] t > 31 -> 0

Max(a, b) == IF a >= b THEN a ELSE b

\* (q + r / den) * 2^k rounded at the binary digit of 2^(k + t).
f32_round_at(sign, q, r, den, k, t) == f32_encode(sign, f32_rounded(q, r, den, t), k + t)

\* The f32 nearest to (q + r / den) * 2^k, for 0 < q < 2^31 and
\* 0 <= r < den, where q has 24 binary digits or more unless r = 0: the
\* value is shifted to the right to leave 24 binary digits, or the digits
\* above 2^-149 when those are fewer.
f32_round(sign, q, r, den, k) ==
    f32_round_at(sign, q, r, den, k, Max(BitLength(q) - 24, -149 - k))

\* The exponent of a / b: 2^e <= a / b < 2^(e + 1).
RECURSIVE HalvingsDown(_, _)
HalvingsDown(a, b) == IF a \div 2 < b THEN 0 ELSE 1 + HalvingsDown(a \div 2, b)

RECURSIVE DoublingsUp(_, _)
DoublingsUp(a, b) == IF a >= b THEN 0 ELSE 1 + DoublingsUp(a, (b \div 2) + (b % 2))

f32_exponent(a, b) == IF a >= b THEN HalvingsDown(a, b) ELSE -DoublingsUp(a, b)

\* Long division: from the quotient q and remainder r of a by b, those of
\* a * 2^s by b, one binary digit a step.
RECURSIVE ShiftDivide(_, _, _, _)
ShiftDivide(q, r, b, s) ==
    IF s = 0 THEN [q |-> q, r |-> r]
    ELSE IF r >= b - r THEN ShiftDivide(2 * q + 1, r - (b - r), b, s - 1)
    ELSE ShiftDivide(2 * q, 2 * r, b, s - 1)

round_division(sign, division, b, k) == f32_round(sign, division.q, division.r, b, k)

\* The f32 nearest to (a / b) * 2^k, for a / b of exponent e: the quotient
\* is taken to 24 binary digits or more, with its remainder.
f32_quotient(sign, a, b, k, e) ==
    round_division(sign, ShiftDivide(a \div b, a % b, b, Max(23 - e, 0)), b,
                   k - Max(23 - e, 0))

\* The f32 nearest to n / d, of two integers above -2^31, d not 0.
f32_nearest(n, d) ==
    IF n = 0 THEN f32_zero(IF d < 0 THEN 1 ELSE 0)
    ELSE f32_quotient(IF (n < 0) # (d < 0) THEN 1 ELSE 0, Abs(n), Abs(d), 0,
                      f32_exponent(Abs(n), Abs(d)))

\* value as f32, of an i32.
f32_of_i32(value) ==
    IF value = 0 THEN f32_zero(0)
    ELSE IF value = -2147483647 - 1 THEN << 207, 0, 0, 0 >>
    ELSE f32_round(IF value < 0 THEN 1 ELSE 0, Abs(value), 0, 1, 0)

\* value as i32, of an f32: toward zero, saturating, 0 for NaN.
f32_to_i32(bits) ==
    IF f32_is_nan(bits) THEN 0
    ELSE IF f32_exp(bits) < 127 THEN 0
    ELSE IF f32_exp(bits) >= 127 + 31
    THEN (IF f32_sign(bits) = 1 THEN -2147483647 - 1 ELSE 2147483647)
    ELSE (IF f32_sign(bits) = 1 THEN -1 ELSE 1)
         * (IF f32_exp(bits) <= 150
            THEN (8388608 + f32_frac(bits)) \div Pow2(150 - f32_exp(bits))
            ELSE (8388608 + f32_frac(bits)) * Pow2(f32_exp(bits) - 150))

\* value1 / value2 on finite f32.  A zero divisor gives an infinity,
\* 0.0 / 0.0 the default NaN.
div_finite(bits1, bits2) ==
    CASE f32_is_zero(bits2) /\ ~f32_is_zero(bits1) -> f32_inf(f32_sign_xor(bits1, bits2))
      [] f32_is_zero(bits2) /\ f32_is_zero(bits1) -> f32_default_nan
      [] ~f32_is_zero(bits2) /\ f32_is_zero(bits1) -> f32_zero(f32_sign_xor(bits1, bits2))
      [] ~f32_is_zero(bits2) /\ ~f32_is_zero(bits1) ->
           f32_quotient(f32_sign_xor(bits1, bits2),
                        f32_significand(bits1), f32_significand(bits2),
                        f32_lsb_exponent(bits1) - f32_lsb_exponent(bits2),
                        f32_exponent(f32_significand(bits1), f32_significand(bits2)))

f32_div(bits1, bits2) ==
    CASE f32_is_nan(bits1) \/ f32_is_nan(bits2) -> f32_nan_of(bits1, bits2)
      [] f32_is_inf(bits1) /\ f32_is_inf(bits2) -> f32_default_nan
      [] f32_is_inf(bits1) /\ f32_exp(bits2) # 255 -> f32_inf(f32_sign_xor(bits1, bits2))
      [] f32_exp(bits1) # 255 /\ f32_is_inf(bits2) -> f32_zero(f32_sign_xor(bits1, bits2))
      [] f32_exp(bits1) # 255 /\ f32_exp(bits2) # 255 -> div_finite(bits1, bits2)

\* (n as f32) / (d as f32): each integer is rounded to f32, then the
\* quotient of the two f32 is rounded.
f32_div_ints(n, d) == f32_div(f32_of_i32(n), f32_of_i32(d))

\* The product of two 24-bit significands, in two halves of 24 binary
\* digits: m1 * m2 = mul_high * 2^24 + mul_low.
mul_middle(m1, m2) == (m1 \div 4096) * (m2 % 4096) + (m1 % 4096) * (m2 \div 4096)

mul_low_sum(m1, m2) == (mul_middle(m1, m2) % 4096) * 4096 + (m1 % 4096) * (m2 % 4096)

mul_low(m1, m2) == mul_low_sum(m1, m2) % 16777216

mul_high(m1, m2) ==
    (m1 \div 4096) * (m2 \div 4096) + mul_middle(m1, m2) \div 4096
        + mul_low_sum(m1, m2) \div 16777216

\* The f32 nearest to (high * 2^24 + low) * 2^k, where high has
\* digits binary digits.
round_wide(sign, high, low, k, digits) ==
    f32_round(sign, high * Pow2(24 - digits) + low \div Pow2(digits),
              low % Pow2(digits), Pow2(digits), k + digits)

\* value1 * value2 on finite f32.
mul_finite(bits1, bits2) ==
    IF f32_is_zero(bits1) \/ f32_is_zero(bits2) THEN f32_zero(f32_sign_xor(bits1, bits2))
    ELSE round_wide(f32_sign_xor(bits1, bits2),
                    mul_high(f32_significand(bits1), f32_significand(bits2)),
                    mul_low(f32_significand(bits1), f32_significand(bits2)),
                    f32_lsb_exponent(bits1) + f32_lsb_exponent(bits2),
                    BitLength(mul_high(f32_significand(bits1), f32_significand(bits2))))

f32_mul(bits1, bits2) ==
    CASE f32_is_nan(bits1) \/ f32_is_nan(bits2) -> f32_nan_of(bits1, bits2)
      [] f32_is_inf(bits1) /\ f32_is_zero(bits2) -> f32_default_nan
      [] f32_is_zero(bits1) /\ f32_is_inf(bits2) -> f32_default_nan
      [] f32_is_inf(bits1) /\ ~f32_is_zero(bits2) /\ ~f32_is_nan(bits2) ->
           f32_inf(f32_sign_xor(bits1, bits2))
      [] f32_exp(bits1) # 255 /\ ~f32_is_zero(bits1) /\ f32_is_inf(bits2) ->
           f32_inf(f32_sign_xor(bits1, bits2))
      [] f32_exp(bits1) # 255 /\ f32_exp(bits2) # 255 -> mul_finite(bits1, bits2)

\* m / 2^g: its integer part, and whether digits were shifted out.
shifted_in(m, g) == IF g >= 25 THEN 0 ELSE m \div Pow2(g)

shifted_out(m, g) == IF g >= 25 THEN m # 0 ELSE m % Pow2(g) # 0

\* The exact sum of m1 * 2^g and m2 with their signs, for g <= 6.
near_sum(sign1, m1, sign2, m2, g) ==
    (IF sign1 = 1 THEN -1 ELSE 1) * m1 * Pow2(g) + (IF sign2 = 1 THEN -1 ELSE 1) * m2

\* For g > 0, the magnitude of m1 * 2^6 plus or minus m2 / 2^g: m1 is taken
\* six digits to the left and m2 aligned under it, and the digits of m2
\* shifted out leave a remainder below the last digit.
far_sum(sign1, m1, sign2, m2, g) ==
    IF sign1 = sign2 THEN m1 * 64 + shifted_in(m2, g)
    ELSE m1 * 64 - shifted_in(m2, g) - (IF shifted_out(m2, g) THEN 1 ELSE 0)

\* The f32 nearest to a sum of magnitude q, or above q when r = 1, times
\* 2^k.  An exact sum of 0 is +0.0.
add_round(sign, q, r, k) ==
    IF q = 0 THEN f32_zero(0) ELSE f32_round(sign, q, r, 2, k)

\* The sum of two nonzero finite f32, the first of the larger exponent: it
\* is exact when the exponents are six apart or less.
add_ordered(sign1, m1, k1, sign2, m2, k2) ==
    IF k1 - k2 <= 6
    THEN add_round(IF near_sum(sign1, m1, sign2, m2, k1 - k2) < 0 THEN 1 ELSE 0,
                   Abs(near_sum(sign1, m1, sign2, m2, k1 - k2)), 0, k2)
    ELSE add_round(sign1, far_sum(sign1, m1, sign2, m2, k1 - k2 - 6),
                   IF shifted_out(m2, k1 - k2 - 6) THEN 1 ELSE 0, k1 - 6)

\* The operand that add_ordered takes first, and the other one.
add_first(bits1, bits2) ==
    IF f32_lsb_exponent(bits1) >= f32_lsb_exponent(bits2) THEN bits1 ELSE bits2

add_second(bits1, bits2) ==
    IF f32_lsb_exponent(bits1) >= f32_lsb_exponent(bits2) THEN bits2 ELSE bits1

add_bits(bits1, bits2) ==
    add_ordered(f32_sign(bits1), f32_significand(bits1), f32_lsb_exponent(bits1),
                f32_sign(bits2), f32_significand(bits2), f32_lsb_exponent(bits2))

\* value1 + value2 on finite f32.
add_finite(bits1, bits2) ==
    IF f32_is_zero(bits1) /\ f32_is_zero(bits2)
    THEN f32_zero(IF f32_sign(bits1) = 1 /\ f32_sign(bits2) = 1 THEN 1 ELSE 0)
    ELSE IF f32_is_zero(bits1) THEN bits2
    ELSE IF f32_is_zero(bits2) THEN bits1
    ELSE add_bits(add_first(bits1, bits2), add_second(bits1, bits2))

f32_add(bits1, bits2) ==
    CASE f32_is_nan(bits1) \/ f32_is_nan(bits2) -> f32_nan_of(bits1, bits2)
      [] f32_is_inf(bits1) /\ f32_is_inf(bits2) ->
           (IF f32_sign(bits1) = f32_sign(bits2) THEN bits1 ELSE f32_default_nan)
      [] f32_is_inf(bits1) /\ f32_exp(bits2) # 255 -> bits1
      [] f32_exp(bits1) # 255 /\ f32_is_inf(bits2) -> bits2
      [] f32_exp(bits1) # 255 /\ f32_exp(bits2) # 255 -> add_finite(bits1, bits2)

f32_neg(bits) == << (bits[1] + 128) % 256, bits[2], bits[3], bits[4] >>

\* A NaN operand is returned as it is, not negated.
f32_sub(bits1, bits2) ==
    IF f32_is_nan(bits1) \/ f32_is_nan(bits2) THEN f32_nan_of(bits1, bits2)
    ELSE f32_add(bits1, f32_neg(bits2))

\* Ordering::cmp on integers.
cmp(a, b) == IF a < b THEN "Less" ELSE IF a = b THEN "Equal" ELSE "Greater"

\* f32::partial_cmp: None when a side is NaN; -0.0 equals 0.0.
f32_key(bits) ==
    (IF f32_sign(bits) = 1 THEN -1 ELSE 1)
    * ((bits[1] % 128) * 16777216 + bits[2] * 65536 + bits[3] * 256 + bits[4])

f32_partial_cmp(bits1, bits2) ==
    IF f32_is_nan(bits1) \/ f32_is_nan(bits2) THEN "None"
    ELSE cmp(f32_key(bits1), f32_key(bits2))

\* String::cmp: lexicographic on the bytes.
RECURSIVE str_cmp(_, _)
str_cmp(s1, s2) ==
    IF s1 = << >> /\ s2 = << >> THEN "Equal"
    ELSE IF s1 = << >> THEN "Less"
    ELSE IF s2 = << >> THEN "Greater"
    ELSE IF Head(s1) # Head(s2) THEN cmp(Head(s1), Head(s2))
    ELSE str_cmp(Tail(s1), Tail(s2))

(***************************************************************************)
(* i32 arithmetic.  `+`, `-` and `*` on i32 panic on overflow in a build   *)
(* with overflow checks and wrap modulo 2^32 in a build without them.      *)
(* The tests and the wrapped results are computed without leaving the      *)
(* 32-bit integers.                                                        *)
(***************************************************************************)
I32_MAX == 2147483647
I32_MIN == -2147483647 - 1

i32_add_overflows(a, b) ==
    \/ b > 0 /\ a > I32_MAX - b
    \/ b < 0 /\ a < I32_MIN - b

i32_wrapping_add(a, b) ==
    IF b > 0 /\ a > I32_MAX - b THEN ((a - I32_MAX) - 1) + ((b - I32_MAX) - 1)
    ELSE IF b < 0 /\ a < I32_MIN - b THEN ((a + I32_MAX) + 1) + ((b + I32_MAX) + 1)
    ELSE a + b

i32_sub_overflows(a, b) ==
    \/ b < 0 /\ a > I32_MAX + b
    \/ b > 0 /\ a < I32_MIN + b

i32_wrapping_sub(a, b) ==
    IF b < 0 /\ a > I32_MAX + b THEN ((a - I32_MAX) - 1) - ((b + I32_MAX) + 1)
    ELSE IF b > 0 /\ a < I32_MIN + b THEN ((a + I32_MAX) + 1) - ((b - I32_MAX) - 1)
    ELSE a - b

\* The product of two magnitudes below 2^31 is more than limit, where limit
\* is 2^31 - 1, or 2^31 when the product is negative (whole says so).
magnitude_exceeds(m1, m2, whole) ==
    /\ m1 > I32_MAX \div m2
    /\ ~(whole /\ I32_MAX % m2 = m2 - 1 /\ m1 - 1 = I32_MAX \div m2)

i32_mul_overflows(a, b) ==
    IF a = 0 \/ b = 0 THEN FALSE
    ELSE IF a = I32_MIN THEN b # 1
    ELSE IF b = I32_MIN THEN a # 1
    ELSE magnitude_exceeds(Abs(a), Abs(b), (a > 0) # (b > 0))

\* a * b modulo 2^32, on the two's complement bytes of a and b (big endian):
\* the sums of byte products for each byte of the product, with the carry
\* of the byte below.
wrapping_mul_byte0(x, y) == x[4] * y[4]
wrapping_mul_byte1(x, y) ==
    x[4] * y[3] + x[3] * y[4] + wrapping_mul_byte0(x, y) \div 256
wrapping_mul_byte2(x, y) ==
    x[4] * y[2] + x[3] * y[3] + x[2] * y[4] + wrapping_mul_byte1(x, y) \div 256
wrapping_mul_byte3(x, y) ==
    x[4] * y[1] + x[3] * y[2] + x[2] * y[3] + x[1] * y[4] + wrapping_mul_byte2(x, y) \div 256

wrapping_mul_bytes(x, y) ==
    << wrapping_mul_byte3(x, y) % 256, wrapping_mul_byte2(x, y) % 256,
       wrapping_mul_byte1(x, y) % 256, wrapping_mul_byte0(x, y) % 256 >>

i32_wrapping_mul(a, b) ==
    i32_from_be_bytes(wrapping_mul_bytes(i32_to_be_bytes(a), i32_to_be_bytes(b)))

\* What an i32 operation that overflowed gives under the build.
overflowed(wrapped, message) ==
    IF overflow_checks THEN Panic(message) ELSE Ok(Value_Int(wrapped))

(***************************************************************************)
(* Operators on values (engine/asl.rs, impl Add / Sub / Mul / Div).        *)
(***************************************************************************)
InvalidTypes == Err("ValidationError", "Invalid types for operator")

DivisionBy0 == Err("ValidationError", "Division by 0")

\* The quotient of two Ints: Value::Float((value1 as f32) / (value2 as f32)).
int_quotient(value1, value2) ==
    Value_Float(f32_div(f32_of_i32(int_of(value1)), f32_of_i32(int_of(value2))))

value_div(value1, value2) ==
    CASE value1.t = "Int" /\ value2.t = "Int" ->
           IF int_of(value2) # 0
           THEN Ok(int_quotient(value1, value2))
           ELSE DivisionBy0
      [] value1.t = "Int" /\ value2.t = "Float" ->
           IF ~f32_is_zero(value2.v)
           THEN Ok(Value_Float(f32_div(f32_of_i32(int_of(value1)), value2.v)))
           ELSE DivisionBy0
      [] value1.t = "Int" /\ value2.t \notin {"Int", "Float"} -> InvalidTypes
      [] value1.t = "Float" /\ value2.t = "Int" ->
           Ok(Value_Float(f32_div(value1.v, f32_of_i32(int_of(value2)))))
      [] value1.t = "Float" /\ value2.t = "Float" ->
           Ok(Value_Float(f32_div(value1.v, value2.v)))
      [] value1.t = "Float" /\ value2.t \notin {"Int", "Float"} -> InvalidTypes
      [] value1.t \notin {"Int", "Float"} -> InvalidTypes

value_mul(value1, value2) ==
    CASE value1.t = "Int" /\ value2.t = "Int" ->
           IF i32_mul_overflows(int_of(value1), int_of(value2))
           THEN overflowed(i32_wrapping_mul(int_of(value1), int_of(value2)),
                           "attempt to multiply with overflow")
           ELSE Ok(Value_Int(int_of(value1) * int_of(value2)))
      [] value1.t = "Int" /\ value2.t = "Float" ->
           Ok(Value_Float(f32_mul(f32_of_i32(int_of(value1)), value2.v)))
      [] value1.t = "Int" /\ value2.t \notin {"Int", "Float"} -> InvalidTypes
      [] value1.t = "Float" /\ value2.t = "Int" ->
           Ok(Value_Float(f32_mul(value1.v, f32_of_i32(int_of(value2)))))
      [] value1.t = "Float" /\ value2.t = "Float" ->
           Ok(Value_Float(f32_mul(value1.v, value2.v)))
      [] value1.t = "Float" /\ value2.t \notin {"Int", "Float"} -> InvalidTypes
      [] value1.t \notin {"Int", "Float"} -> InvalidTypes

value_add(value1, value2) ==
    CASE value1.t = "Int" /\ value2.t = "Int" ->
           IF i32_add_overflows(int_of(value1), int_of(value2))
           THEN overflowed(i32_wrapping_add(int_of(value1), int_of(value2)),
                           "attempt to add with overflow")
           ELSE Ok(Value_Int(int_of(value1) + int_of(value2)))
      [] value1.t = "Int" /\ value2.t = "Float" ->
           Ok(Value_Float(f32_add(f32_of_i32(int_of(value1)), value2.v)))
      [] value1.t = "Int" /\ value2.t \notin {"Int", "Float"} -> InvalidTypes
      [] value1.t = "Float" /\ value2.t = "Int" ->
           Ok(Value_Float(f32_add(value1.v, f32_of_i32(int_of(value2)))))
      [] value1.t = "Float" /\ value2.t = "Float" ->
           Ok(Value_Float(f32_add(value1.v, value2.v)))
      [] value1.t = "Float" /\ value2.t \notin {"Int", "Float"} -> InvalidTypes
      [] value1.t = "Str" /\ value2.t = "Str" -> Ok(Value_Str(value1.v \o value2.v))
      [] value1.t = "Str" /\ value2.t # "Str" -> InvalidTypes
      [] value1.t \notin {"Int", "Float", "Str"} -> InvalidTypes

value_sub(value1, value2) ==
    CASE value1.t = "Int" /\ value2.t = "Int" ->
           IF i32_sub_overflows(int_of(value1), int_of(value2))
           THEN overflowed(i32_wrapping_sub(int_of(value1), int_of(value2)),
                           "attempt to subtract with overflow")
           ELSE Ok(Value_Int(int_of(value1) - int_of(value2)))
      [] value1.t = "Int" /\ value2.t = "Float" ->
           Ok(Value_Float(f32_sub(f32_of_i32(int_of(value1)), value2.v)))
      [] value1.t = "Int" /\ value2.t \notin {"Int", "Float"} -> InvalidTypes
      [] value1.t = "Float" /\ value2.t = "Int" ->
           Ok(Value_Float(f32_sub(value1.v, f32_of_i32(int_of(value2)))))
      [] value1.t = "Float" /\ value2.t = "Float" ->
           Ok(Value_Float(f32_sub(value1.v, value2.v)))
      [] value1.t = "Float" /\ value2.t \notin {"Int", "Float"} -> InvalidTypes
      [] value1.t \notin {"Int", "Float"} -> InvalidTypes

(***************************************************************************)
(* Comparison of values (engine/asl.rs, impl PartialEq / PartialOrd).      *)
(* partial_cmp gives "Less", "Equal", "Greater", or "None" for None.       *)
(***************************************************************************)
value_eq(value1, value2) ==
    CASE value1.t = "Int" /\ value2.t = "Int" -> int_of(value1) = int_of(value2)
      [] value1.t = "Int" /\ value2.t = "Float" ->
           f32_partial_cmp(f32_of_i32(int_of(value1)), value2.v) = "Equal"
      [] value1.t = "Int" /\ value2.t \notin {"Int", "Float"} -> FALSE
      [] value1.t = "Float" /\ value2.t = "Int" ->
           f32_partial_cmp(value1.v, f32_of_i32(int_of(value2))) = "Equal"
      [] value1.t = "Float" /\ value2.t = "Float" ->
           f32_partial_cmp(value1.v, value2.v) = "Equal"
      [] value1.t = "Float" /\ value2.t \notin {"Int", "Float"} -> FALSE
      [] value1.t = "Str" /\ value2.t = "Str" -> value1.v = value2.v
      [] value1.t = "Str" /\ value2.t # "Str" -> FALSE
      [] value1.t = "Bool" /\ value2.t = "Bool" -> bool_of(value1) = bool_of(value2)
      [] value1.t = "Bool" /\ value2.t # "Bool" -> FALSE

value_partial_cmp(value1, value2) ==
    CASE value1.t = "Int" /\ value2.t = "Int" -> cmp(int_of(value1), int_of(value2))
      [] value1.t = "Int" /\ value2.t = "Float" -> cmp(int_of(value1), f32_to_i32(value2.v))
      [] value1.t = "Int" /\ value2.t \notin {"Int", "Float"} -> "None"
      [] value1.t = "Float" /\ value2.t = "Int" ->
           f32_partial_cmp(value1.v, f32_of_i32(int_of(value2)))
      [] value1.t = "Float" /\ value2.t = "Float" -> f32_partial_cmp(value1.v, value2.v)
      [] value1.t = "Float" /\ value2.t \notin {"Int", "Float"} -> "None"
      [] value1.t = "Str" /\ value2.t = "Str" -> str_cmp(value1.v, value2.v)
      [] value1.t = "Str" /\ value2.t # "Str" -> "None"
      [] value1.t = "Bool" -> "None"

\* The comparison operators Rust derives from eq and partial_cmp.
compare(value1, comparator, value2) ==
    CASE comparator = "Eq" -> value_eq(value1, value2)
      [] comparator = "Neq" -> ~value_eq(value1, value2)
      [] comparator = "Gt" -> value_partial_cmp(value1, value2) = "Greater"
      [] comparator = "Gte" -> value_partial_cmp(value1, value2) \in {"Greater", "Equal"}
      [] comparator = "Lt" -> value_partial_cmp(value1, value2) = "Less"
      [] comparator = "Lte" -> value_partial_cmp(value1, value2) \in {"Less", "Equal"}

\* get_bool with every value that is not a Bool read as false.
get_bool_or_false(value) ==
    IF value.t = "Bool" THEN Ok(value)
    ELSE Ok(Value_Bool(FALSE))

get_bool(value) ==
    IF value.t = "Bool" THEN Ok(value)
    ELSE Err("ValidationError", "Value is not boolean")

(***************************************************************************)
(* Expressions (engine/asl.rs, Expression::evaluate).  identifier_values   *)
(* is NoValues for Option::None, else a function from names to values.     *)
(***************************************************************************)
Expr_Value(value) == [e |-> "Value", value |-> value]
Expr_Identifier(name) == [e |-> "Identifier", name |-> name]
Expr_Op(exp1, operator, exp2) ==
    [e |-> "Op", exp1 |-> exp1, operator |-> operator, exp2 |-> exp2]
Expr_Comp(exp1, comparator, exp2) ==
    [e |-> "Comp", exp1 |-> exp1, comparator |-> comparator, exp2 |-> exp2]
Expr_LogicOp(exp1, logic_operator, exp2) ==
    [e |-> "LogicOp", exp1 |-> exp1, logic_operator |-> logic_operator, exp2 |-> exp2]

NoValues == [none |-> TRUE]

\* format!("Identifier {} not present in provided values", name), for the
\* identifiers that expressions of this model use.
not_present_message(name) ==
    CASE name = "x" -> "Identifier x not present in provided values"
      [] name = "y" -> "Identifier y not present in provided values"
      [] name = "z" -> "Identifier z not present in provided values"
      [] name = "id" -> "Identifier id not present in provided values"
      [] name = "name" -> "Identifier name not present in provided values"

\* The Identifier arm of evaluate: the value bound to name.
evaluate_identifier_or_null(name, identifier_values) ==
    IF identifier_values # NoValues /\ name \in DOMAIN identifier_values
    THEN Ok(identifier_values[name])
    ELSE Ok(Value_Null)
evaluate_identifier(name, identifier_values) ==
    IF identifier_values = NoValues
    THEN Err("ValidationError",
             "Identifier values not provided but they were used in this expression")
    ELSE IF name \in DOMAIN identifier_values
         THEN Ok(identifier_values[name])
         ELSE Err("ValidationError", not_present_message(name))

\* evaluate with the right operand of a binary expression taken first.
RECURSIVE evaluate_right_first(_, _)
evaluate_right_first(expr, identifier_values) ==
    CASE expr.e = "Value" -> Ok(expr.value)
      [] expr.e = "Identifier" -> evaluate_identifier(expr.name, identifier_values)
      [] expr.e = "Op" ->
           LET op_value2 == evaluate_right_first(expr.exp2, identifier_values)
           IN  IF ~op_value2.ok THEN op_value2
               ELSE LET op_value1 == evaluate_right_first(expr.exp1, identifier_values)
                    IN  IF ~op_value1.ok THEN op_value1
                        ELSE (CASE expr.operator = "Add" ->
                                     value_add(op_value1.value, op_value2.value)
                                [] expr.operator = "Subtract" ->
                                     value_sub(op_value1.value, op_value2.value)
                                [] expr.operator = "Multiply" ->
                                     value_mul(op_value1.value, op_value2.value)
                                [] expr.operator = "Divide" ->
                                     value_div(op_value1.value, op_value2.value))
      [] expr.e = "Comp" ->
           LET cmp_value2 == evaluate_right_first(expr.exp2, identifier_values)
           IN  IF ~cmp_value2.ok THEN cmp_value2
               ELSE LET cmp_value1 == evaluate_right_first(expr.exp1, identifier_values)
                    IN  IF ~cmp_value1.ok THEN cmp_value1
                        ELSE Ok(Value_Bool(compare(cmp_value1.value, expr.comparator,
                                                   cmp_value2.value)))
      [] expr.e = "LogicOp" ->
           LET logic_value2 == evaluate_right_first(expr.exp2, identifier_values)
               logic_bool2 == get_bool(logic_value2.value)
           IN  IF ~logic_value2.ok THEN logic_value2
               ELSE IF ~logic_bool2.ok THEN logic_bool2
               ELSE LET logic_value1 == evaluate_right_first(expr.exp1, identifier_values)
                        logic_bool1 == get_bool(logic_value1.value)
                    IN  IF ~logic_value1.ok THEN logic_value1
                        ELSE IF ~logic_bool1.ok THEN logic_bool1
                        ELSE Ok(Value_Bool(
                               CASE expr.logic_operator = "And" ->
                                      bool_of(logic_bool1.value) /\ bool_of(logic_bool2.value)
                                 [] expr.logic_operator = "Or" ->
                                      bool_of(logic_bool1.value) \/ bool_of(logic_bool2.value)))

RECURSIVE evaluate(_, _)
evaluate(expr, identifier_values) ==
    CASE expr.e = "Value" -> Ok(expr.value)
      [] expr.e = "Identifier" -> evaluate_identifier(expr.name, identifier_values)
      [] expr.e = "Op" ->
           LET value1 == evaluate(expr.exp1, identifier_values)
           IN  IF ~value1.ok THEN value1
               ELSE LET value2 == evaluate(expr.exp2, identifier_values)
                    IN  IF ~value2.ok THEN value2
                        ELSE (CASE expr.operator = "Add" -> value_add(value1.value, value2.value)
                                [] expr.operator = "Subtract" -> value_sub(value1.value, value2.value)
                                [] expr.operator = "Multiply" -> value_mul(value1.value, value2.value)
                                [] expr.operator = "Divide" -> value_div(value1.value, value2.value))
      [] expr.e = "Comp" ->
           LET comp_value1 == evaluate(expr.exp1, identifier_values)
           IN  IF ~comp_value1.ok THEN comp_value1
               ELSE LET comp_value2 == evaluate(expr.exp2, identifier_values)
                    IN  IF ~comp_value2.ok THEN comp_value2
                        ELSE Ok(Value_Bool(compare(comp_value1.value, expr.comparator,
                                                   comp_value2.value)))
      [] expr.e = "LogicOp" ->
           LET evaluated1 == evaluate(expr.exp1, identifier_values)
               bool1 == get_bool(evaluated1.value)
           IN  IF ~evaluated1.ok THEN evaluated1
               ELSE IF ~bool1.ok THEN bool1
               ELSE LET evaluated2 == evaluate(expr.exp2, identifier_values)
                        bool2 == get_bool(evaluated2.value)
                    IN  IF ~evaluated2.ok THEN evaluated2
                        ELSE IF ~bool2.ok THEN bool2
                        ELSE Ok(Value_Bool(
                               CASE expr.logic_operator = "And" ->
                                      bool_of(bool1.value) /\ bool_of(bool2.value)
                                 [] expr.logic_operator = "Or" ->
                                      bool_of(bool1.value) \/ bool_of(bool2.value)))

\* InsertQuery::evaluate_expressions: the values, or the first error.
RECURSIVE EvaluateFrom(_, _, _)
EvaluateFrom(values, idx, evaluated_expressions) ==
    IF idx > Len(values) THEN Ok(evaluated_expressions)
    ELSE LET r == evaluate(values[idx], NoValues)
         IN  IF ~r.ok THEN r
             ELSE EvaluateFrom(values, idx + 1, Append(evaluated_expressions, r.value))

evaluate_expressions(query) == EvaluateFrom(query.values, 1, << >>)

(***************************************************************************)
(* Table file engine (engine/fs.rs).  A data file is its bytes; the        *)
(* operators take the bytes the opened file holds and give the bytes it    *)
(* holds when the function returns.  io names the file-system call of the  *)
(* function that fails, "ok" when none does.  A call that fails leaves the *)
(* file as it was.  file.read on these files stores every byte the file    *)
(* has from the position on, up to the length of the buffer.               *)
(***************************************************************************)
IOError == Err("IOError", "")

\* file.seek(SeekFrom::Start(offset)) then file.write(bytes) returning
\* Ok(written): Write::write may store a prefix of bytes only, and written
\* is its length.  The prefix replaces what the file holds from offset on
\* and extends it past its end; a gap between the end of the file and
\* offset reads as zeros.  A write of no bytes leaves the file as it is,
\* wherever the seek went.
file_write_at(file, offset, bytes, written) ==
    IF written = 0 THEN file
    ELSE (IF offset <= Len(file) THEN SubSeq(file, 1, offset)
          ELSE file \o Zeros(offset - Len(file)))
             \o SubSeq(bytes, 1, written)
             \o SubSeq(file, offset + written + 1, Len(file))

\* file.read(&mut page_buffer) with the file position at offset: the bytes
\* read replace the head of the buffer, the rest of the buffer keeps what it
\* held.
read_count(file, offset) ==
    IF Len(file) - offset < PAGE_SIZE THEN Len(file) - offset ELSE PAGE_SIZE

file_read_at(file, offset, page_buffer) ==
    copy_bytes_into(page_buffer,
                    SubSeq(file, offset + 1, offset + read_count(file, offset)), 0)

\* OpenOptions::new().create(true).read(true).write(true).open(..): a
\* missing data file is created empty, an existing one is opened as it is.
open_or_create_truncated(files, name) ==
    [n \in DOMAIN files \cup {name} |-> IF n = name THEN << >> ELSE files[n]]
open_or_create(files, name) ==
    [n \in DOMAIN files \cup {name} |-> IF n \in DOMAIN files THEN files[n] ELSE << >>]

\* The id of the page allocated when the last page has no room.
next_page_id_same(last_page) == last_page.id
next_page_id(last_page) == last_page.id + 1

\* The file offset at which that new page is written.
new_page_offset(last_page_offset) == last_page_offset + PAGE_SIZE

\* QueryError made from a PagingError by the `?` of insert_record.  The
\* source has neither PagingError nor the conversion: the variant and the
\* message are the specification's (4.4 and 7, "validation error").
paging_error == Err("ValidationError", "NotEnoughSpace")

InsertIO == {"ok", "open_fails", "metadata_fails", "read_fails", "write_fails"}

\* What insert_record did: it panicked, or it returned res, and the bytes the
\* file holds then.
Inserted(res, file) == [panic |-> FALSE, res |-> res, file |-> file]
InsertPanicked(file) == [panic |-> TRUE, res |-> Ok(<< >>), file |-> file]

\* `file.seek(SeekFrom::Start(last_page_offset))?; file.write(..)?; Ok(())`:
\* the count that write returns is dropped.
write_last_page(file, last_page_offset, last_page, io, written) ==
    IF io = "write_fails" THEN Inserted(IOError, file)
    ELSE Inserted(Ok(<< >>),
                  file_write_at(file, last_page_offset, page_to_bytes(last_page), written))

\* The item goes to a new page of that id, written at that offset.
insert_into_new_page(file, item, last_page_offset, new_page, io, written) ==
    IF new_page.panic THEN InsertPanicked(file)
    ELSE IF ~new_page.ok THEN Inserted(paging_error, file)
    ELSE write_last_page(file, last_page_offset, new_page.page, io, written)

\* `match last_page.add_item(&item)` on the page read from the file.
insert_into_last_page(file, item, last_page_offset, last_page, added, io, written) ==
    IF added.panic THEN InsertPanicked(file)
    ELSE IF added.ok
    THEN write_last_page(file, last_page_offset, added.page, io, written)
    ELSE insert_into_new_page(file, item, new_page_offset(last_page_offset),
                              add_item(page_new(next_page_id(last_page)), item),
                              io, written)

\* The page that `file.read(&mut page_bytes)` leaves in the zeroed buffer.
read_last_page(file, last_page_offset) ==
    page_from_bytes(file_read_at(file, last_page_offset, Zeros(PAGE_SIZE)))

\* insert_record once the file is open.  table is not read.
insert_record(file, table, record, io, written) ==
    IF io = "metadata_fails" THEN Inserted(IOError, file)
    ELSE IF Len(file) \div PAGE_SIZE > 0
    THEN (IF io = "read_fails" THEN Inserted(IOError, file)
          ELSE insert_into_last_page(
                   file, item_from_record(record),
                   PAGE_SIZE * (Len(file) \div PAGE_SIZE - 1),
                   read_last_page(file, PAGE_SIZE * (Len(file) \div PAGE_SIZE - 1)),
                   add_item(read_last_page(file, PAGE_SIZE * (Len(file) \div PAGE_SIZE - 1)),
                            item_from_record(record)),
                   io, written))
    ELSE insert_into_new_page(file, item_from_record(record), 0,
                              add_item(page_new(1), item_from_record(record)), io, written)

NoCondition == [none |-> TRUE]

\* Expression::evaluate_for_record: the condition evaluated with each column
\* name bound to the record's value at the column's position.
evaluate_for_record(condition, table, record) ==
    evaluate(condition,
             [name \in {table.columns[i].name : i \in 1..Len(table.columns)} |->
                 record[CHOOSE i \in 1..Len(table.columns) : table.columns[i].name = name]])

\* What a scan has so far: a panic, or the Result of the first evaluation of
\* the condition or file-system call that failed, or the records kept.
Scanned(records) == [panic |-> FALSE, res |-> Ok(<< >>), values |-> records]
ScanPanicked == [panic |-> TRUE, res |-> Ok(<< >>), values |-> << >>]
ScanFailed(error) == [panic |-> FALSE, res |-> error, values |-> << >>]

\* select_records' test of one record.
include_record(condition, found) ==
    IF condition = NoCondition THEN TRUE
    ELSE value_eq(found.value, Value_Bool(TRUE))

\* The items of one page, in slot order, added to records.
RECURSIVE PageRecordsFrom(_, _, _, _, _)
\* The loop body once the condition is evaluated to found: `?` returns its
\* error, and the record is pushed when there is no condition or it is true.
PageRecordFound(items, table, condition, idx, records, record, found) ==
    IF found.err = "Panic" THEN ScanPanicked
    ELSE IF ~found.ok THEN ScanFailed(found)
    ELSE PageRecordsFrom(items, table, condition, idx + 1,
                         IF include_record(condition, found)
                         THEN Append(records, record.values)
                         ELSE records)

\* The loop body on the record that to_record returns.
PageRecordAt(items, table, condition, idx, records, record) ==
    IF record.panic THEN ScanPanicked
    ELSE PageRecordFound(items, table, condition, idx, records, record,
                         IF condition = NoCondition THEN Ok(Value_Bool(TRUE))
                         ELSE evaluate_for_record(condition, table, record.values))

PageRecordsFrom(items, table, condition, idx, records) ==
    IF idx > Len(items) THEN Scanned(records)
    ELSE PageRecordAt(items, table, condition, idx, records,
                      item_to_record(items[idx], table))

SelectIO == {"ok", "open_fails", "read_fails"}

\* select_records' loop: one file.read into page_buffer per round, from byte
\* offset, until a read returns 0 bytes.  The buffer is the same array in
\* every round: a read of fewer than PAGE_SIZE bytes leaves the tail of the
\* page of the round before in it.
RECURSIVE SelectFrom(_, _, _, _, _, _)
\* The scan after the page at offset gave found.
SelectAfter(file, table, condition, offset, page_buffer, found) ==
    IF found.panic \/ ~found.res.ok THEN found
    ELSE SelectFrom(file, table, condition, offset + PAGE_SIZE, page_buffer, found.values)

\* The loop body on the buffer after the read.
SelectPage(file, table, condition, offset, page_buffer, records) ==
    IF get_items_panics(page_from_bytes(page_buffer)) THEN ScanPanicked
    ELSE SelectAfter(file, table, condition, offset, page_buffer,
                     PageRecordsFrom(get_items(page_from_bytes(page_buffer)),
                                     table, condition, 1, records))

SelectFrom(file, table, condition, offset, page_buffer, records) ==
    IF offset >= Len(file) THEN Scanned(records)
    ELSE SelectPage(file, table, condition, offset,
                    file_read_at(file, offset, page_buffer), records)

\* select_records once the file is open.  columns is not read.
select_records(file, table, columns, condition, io) ==
    IF io = "read_fails" THEN ScanFailed(IOError)
    ELSE SelectFrom(file, table, condition, 0, Zeros(PAGE_SIZE), << >>)

\* asl::ColumnValue: a column name and the value an update gives it.
ColumnValue(column, value) == [column |-> column, value |-> value]

\* table.columns.iter().position(..): the index of the first column of that
\* name, 0 for None.
column_position(table, column_name) ==
    IF \E i \in 1..Len(table.columns) : table.columns[i].name = column_name
    THEN CHOOSE i \in 1..Len(table.columns) :
            /\ table.columns[i].name = column_name
            /\ \A j \in 1..(i - 1) : table.columns[j].name # column_name
    ELSE 0

\* update_records' change of one record, from set-list entry idx: each named
\* column takes its value.  position(..).unwrap() panics on a name that is
\* not a column of the table.
RECURSIVE SetValuesFrom(_, _, _, _)
SetValuesFrom(record, table, values, idx) ==
    IF idx > Len(values) THEN [panic |-> FALSE, values |-> record]
    ELSE IF column_position(table, values[idx].column) = 0 THEN Panicked
    ELSE SetValuesFrom([record EXCEPT ![column_position(table, values[idx].column)] =
                                          values[idx].value],
                       table, values, idx + 1)

\* The items of one page.  The record that to_record builds is a local of
\* the loop body: it is changed and then dropped, the item and the page are
\* not touched.
RECURSIVE UpdateItemsFrom(_, _, _, _, _)
\* The loop body once the condition is evaluated to found.
UpdateItemFound(items, table, values, condition, idx, record, found) ==
    IF found.err = "Panic" THEN ScanPanicked
    ELSE IF ~found.ok THEN ScanFailed(found)
    ELSE IF include_record(condition, found)
            /\ SetValuesFrom(record.values, table, values, 1).panic
    THEN ScanPanicked
    ELSE UpdateItemsFrom(items, table, values, condition, idx + 1)

\* The loop body on the record that to_record returns.
UpdateItemAt(items, table, values, condition, idx, record) ==
    IF record.panic THEN ScanPanicked
    ELSE UpdateItemFound(items, table, values, condition, idx, record,
                         IF condition = NoCondition THEN Ok(Value_Bool(TRUE))
                         ELSE evaluate_for_record(condition, table, record.values))

UpdateItemsFrom(items, table, values, condition, idx) ==
    IF idx > Len(items) THEN Scanned(<< >>)
    ELSE UpdateItemAt(items, table, values, condition, idx,
                      item_to_record(items[idx], table))

\* update_records' loop: one file.read into page_buffer per round, as in
\* select_records.  No round writes to the file.
RECURSIVE UpdateFrom(_, _, _, _, _, _)
\* The scan after the page at offset gave found.
UpdateAfter(file, table, values, condition, offset, page_buffer, found) ==
    IF found.panic \/ ~found.res.ok THEN found
    ELSE UpdateFrom(file, table, values, condition, offset + PAGE_SIZE, page_buffer)

\* The loop body on the buffer after the read.
UpdatePage(file, table, values, condition, offset, page_buffer) ==
    IF get_items_panics(page_from_bytes(page_buffer)) THEN ScanPanicked
    ELSE UpdateAfter(file, table, values, condition, offset, page_buffer,
                     UpdateItemsFrom(get_items(page_from_bytes(page_buffer)),
                                     table, values, condition, 1))

UpdateFrom(file, table, values, condition, offset, page_buffer) ==
    IF offset >= Len(file) THEN Scanned(<< >>)
    ELSE UpdatePage(file, table, values, condition, offset,
                    file_read_at(file, offset, page_buffer))

\* update_records once the file is open.
update_records(file, table, values, condition, io) ==
    IF io = "read_fails" THEN ScanFailed(IOError)
    ELSE UpdateFrom(file, table, values, condition, 0, Zeros(PAGE_SIZE))

(***************************************************************************)
(* The catalog file (engine/fs.rs store_definitions / load_definitions).   *)
(* bincode writes a HashMap as its entries in the map's iteration order,   *)
(* which the hasher decides: serialize takes that order as a parameter.    *)
(* deserialize builds the map from the entries.  The file is absent, or    *)
(* holds a whole serialisation, or holds the part of one that a write_all  *)
(* stored before it failed, on which deserialize returns an error.         *)
(***************************************************************************)
Orderings(S) ==
    { o \in [1..Cardinality(S) -> S] : \A i, j \in 1..Cardinality(S) : o[i] = o[j] => i = j }

serialize(tables, order) == [i \in 1..Len(order) |-> << order[i], tables[order[i]] >>]

deserialize(entries) ==
    [ name \in { entries[i][1] : i \in 1..Len(entries) } |->
        (LET i == CHOOSE k \in 1..Len(entries) : entries[k][1] = name IN entries[i][2]) ]

NoTables == [ name \in {} |-> 0 ]

Absent == [state |-> "absent", entries |-> << >>]
Written(entries) == [state |-> "written", entries |-> entries]
Truncated == [state |-> "truncated", entries |-> << >>]

\* store_definitions: the catalog file after the call.  File::create
\* truncates the file before write_all writes; when File::create fails the
\* file is left as it was.
StoreIO == {"ok", "store_create_fails", "store_write_fails"}

store_definitions(file, tables, order, io) ==
    IF io = "store_create_fails" THEN file
    ELSE IF io = "store_write_fails" THEN Truncated
    ELSE Written(serialize(tables, order))

\* load_definitions: the Result it returns, or the panic of
\* `bincode::deserialize(..).unwrap()`.
LoadIO == {"ok", "load_fails"}

load_definitions(file, io) ==
    IF io = "load_fails" \/ file.state = "absent" THEN [panic |-> FALSE, res |-> IOError]
    ELSE IF file.state = "truncated" THEN [panic |-> TRUE, res |-> IOError]
    ELSE [panic |-> FALSE, res |-> Ok(deserialize(file.entries))]

(***************************************************************************)
(* {:?} of types and values, as the executor's messages print them.        *)
(***************************************************************************)
\* str's Debug of the bytes 20..5F and 61..7E: the character itself, with a
\* backslash before a double quote and before a backslash.  Other bytes are
\* not given.
DebugChars ==
    <<
       " ", "!", "\\\"", "#", "$", "%", "&", "'", "(", ")", "*", "+",
       ",", "-", ".", "/", "0", "1", "2", "3", "4", "5", "6", "7",
       "8", "9", ":", ";", "<", "=", ">", "?", "@", "A", "B", "C",
       "D", "E", "F", "G", "H", "I", "J", "K", "L", "M", "N", "O",
       "P", "Q", "R", "S", "T", "U", "V", "W", "X", "Y", "Z", "[",
       "\\\\", "]", "^", "_" >>
DebugCharsLower ==
    << "a", "b", "c", "d", "e", "f", "g", "h", "i", "j", "k", "l", "m",
       "n", "o", "p", "q", "r", "s", "t", "u", "v", "w", "x", "y", "z",
       "{", "|", "}", "~" >>

debug_char(byte) ==
    CASE 32 <= byte /\ byte <= 95 -> DebugChars[byte - 31]
      [] 97 <= byte /\ byte <= 126 -> DebugCharsLower[byte - 96]

\* The characters of bytes[lo..hi], by halves.
RECURSIVE debug_chars(_, _, _)
debug_chars(bytes, lo, hi) ==
    IF lo > hi THEN ""
    ELSE IF lo = hi THEN debug_char(bytes[lo])
    ELSE debug_chars(bytes, lo, (lo + hi) \div 2)
             \o debug_chars(bytes, (lo + hi) \div 2 + 1, hi)

RECURSIVE Pow10(_)
Pow10(k) == IF k = 0 THEN 1 ELSE 10 * Pow10(k - 1)
RECURSIVE Pow5(_)
Pow5(k) == IF k = 0 THEN 1 ELSE 5 * Pow5(k - 1)

\* The last width decimal digits of n, zeros included.
RECURSIVE decimal_digits(_, _)
decimal_digits(n, width) ==
    IF width = 0 THEN ""
    ELSE decimal_digits(n \div 10, width - 1) \o ToString(n % 10)

\* f32's Debug of a finite value m * 2^k (m odd) that is a decimal of at most
\* seven significant digits and at least 0.0001: the shortest decimal that
\* reads back as the same f32 is then the value itself, printed with at
\* least one digit after the point.  Other values are not given.
debug_magnitude(m, k) ==
    CASE k >= 0 /\ k <= 23 /\ m <= 9999999 \div Pow2(k) ->
           ToString(m * Pow2(k)) \o ".0"
      [] k < 0 /\ k >= -9 /\ m <= 9999999 \div Pow5(-k)
               /\ (k >= -4 \/ m * Pow5(-k) >= Pow10(-k - 4)) ->
           ToString((m * Pow5(-k)) \div Pow10(-k)) \o "."
               \o decimal_digits((m * Pow5(-k)) % Pow10(-k), -k)

debug_f32(bits) ==
    CASE f32_is_nan(bits) -> "NaN"
      [] f32_exp(bits) = 255 /\ f32_frac(bits) = 0 ->
           (IF f32_sign(bits) = 1 THEN "-inf" ELSE "inf")
      [] f32_is_zero(bits) -> (IF f32_sign(bits) = 1 THEN "-0.0" ELSE "0.0")
      [] OTHER -> (IF f32_sign(bits) = 1 THEN "-" ELSE "")
                      \o debug_magnitude(f32_parts(bits).m, f32_parts(bits).k)

\* #[derive(Debug)] of Value: the variant and its payload.
debug_value(value) ==
    CASE value.t = "Str" -> "Str(\"" \o debug_chars(value.v, 1, Len(value.v)) \o "\")"
      [] value.t = "Int" -> "Int(" \o ToString(int_of(value)) \o ")"
      [] value.t = "Float" -> "Float(" \o debug_f32(value.v) \o ")"
      [] value.t = "Bool" -> (IF bool_of(value) THEN "Bool(true)" ELSE "Bool(false)")

\* #[derive(Debug)] of Type: the variant's name.
debug_type(column_type) == column_type

(***************************************************************************)
(* Statement executor (engine/db.rs).                                      *)
(***************************************************************************)
\* Table::get_column: the index of the first column of that name, 0 for None.
get_column(table, column_name) ==
    IF \E i \in 1..Len(table.columns) : table.columns[i].name = column_name
    THEN CHOOSE i \in 1..Len(table.columns) :
            /\ table.columns[i].name = column_name
            /\ \A j \in 1..(i - 1) : table.columns[j].name # column_name
    ELSE 0

RECURSIVE ValidateFrom(_, _, _, _)
ValidateFrom(table, query, evaluated_expressions, idx) ==
    IF idx > Len(query.columns) THEN Ok(<< >>)
    ELSE LET value == evaluated_expressions[idx]
             table_column == get_column(table, query.columns[idx])
         IN  IF table_column = 0
             THEN Err("ValidationError",
                      "The column " \o query.columns[idx] \o " doesn't exist in "
                          \o table.name)
             ELSE IF ~has_type(value, table.columns[table_column].column_type)
             THEN Err("ValidationError",
                      "Incorrect value type for column " \o query.columns[idx]
                          \o ". Expected '"
                          \o debug_type(table.columns[table_column].column_type)
                          \o "' and got '" \o debug_value(value) \o "'")
             ELSE ValidateFrom(table, query, evaluated_expressions, idx + 1)

validate_insert(table, query, evaluated_expressions) ==
    IF Len(query.columns) # Len(evaluated_expressions)
    THEN Err("ValidationError", "The number of columns and values doesn't match")
    ELSE ValidateFrom(table, query, evaluated_expressions, 1)

(***************************************************************************)
(* Inputs.  A table name, two schemas, and INSERT statements whose         *)
(* string literals are sized against the page: with ItemOverhead bytes of  *)
(* item header and fixed fields and a slot of two words, a name of HalfLen *)
(* bytes makes two records fill a page exactly, FullLen makes one record   *)
(* fill it exactly, and one byte more does not fit.                        *)
(***************************************************************************)
MaxRecords == 2

\* The pages-deep run: inserts into one table until three pages are there.
MaxFileRecords == 3

\* The number of writes that store part of a page in one run.
MaxShortWrites == 1

TableNames == {"t"}

Columns1 == << [name |-> "id", column_type |-> "Int"],
               [name |-> "name", column_type |-> "Str"] >>
Columns2 == << [name |-> "x", column_type |-> "Int"] >>
Columns3 == << [name |-> "y", column_type |-> "Float"] >>
Schemas == {Columns1, Columns2}
QuerySchemas == {Columns1, Columns2, Columns3}

ItemOverhead == USIZE_SIZE + 1 + 4 + USIZE_SIZE
FullLen == PAGE_DATA_SIZE - USIZE_SIZE * 2 - ItemOverhead
HalfLen == PAGE_DATA_SIZE \div 2 - USIZE_SIZE * 2 - ItemOverhead

Letters(n) == [i \in 1..n |-> 97 + (i % 3)]
LitInt(v) == Expr_Value(Value_Int(v))
LitStr(n) == Expr_Value(Value_Str(Letters(n)))
\* The float literal whose value is n / d.
LitFloat(n, d) == Expr_Value(Value_Float(f32_nearest(n, d)))

InsertShapes ==
    << [columns |-> << "id", "name" >>, values |-> << LitInt(1), LitStr(1) >>],
       [columns |-> << "id", "name" >>, values |-> << LitInt(-2), LitStr(HalfLen) >>],
       [columns |-> << "id", "name" >>, values |-> << LitInt(3), LitStr(HalfLen + 1) >>],
       [columns |-> << "id", "name" >>, values |-> << LitInt(4), LitStr(FullLen) >>],
       [columns |-> << "id", "name" >>, values |-> << LitInt(5), LitStr(FullLen + 1) >>],
       [columns |-> << "x" >>, values |-> << Expr_Op(LitInt(1), "Divide", LitInt(0)) >>],
       [columns |-> << "x" >>, values |-> << Expr_Op(LitInt(3), "Add", LitInt(4)) >>],
       [columns |-> << "x" >>, values |-> << Expr_Op(LitInt(6), "Divide", LitInt(2)) >>],
       [columns |-> << "id", "name" >>, values |-> << LitInt(1) >>],
       [columns |-> << "name", "id" >>, values |-> << LitStr(1), LitInt(1) >>] >>

\* The INSERTs of the pages-deep run: a short record, one that fills half a
\* page, one that fills a page, and one that is a byte too long for a page.
FileInsertShapes == << InsertShapes[1], InsertShapes[2], InsertShapes[4], InsertShapes[5] >>

\* INSERT statements of short records, for the statements that read them back.
QueryInsertShapes ==
    << [columns |-> << "id", "name" >>, values |-> << LitInt(1), LitStr(1) >>],
       [columns |-> << "id", "name" >>, values |-> << LitInt(3), LitStr(2) >>],
       [columns |-> << "name", "id" >>, values |-> << LitStr(1), LitInt(1) >>],
       [columns |-> << "id" >>, values |-> << LitInt(2) >>],
       [columns |-> << "id", "name" >>, values |-> << LitInt(1) >>],
       [columns |-> << "id", "nope" >>, values |-> << LitInt(1), LitStr(1) >>],
       [columns |-> << "id", "name" >>, values |-> << LitStr(1), LitInt(1) >>],
       [columns |-> << "x" >>, values |-> << Expr_Op(LitInt(3), "Add", LitInt(4)) >>],
       [columns |-> << "x" >>, values |-> << Expr_Op(LitInt(6), "Divide", LitInt(2)) >>],
       [columns |-> << "x" >>, values |-> << Expr_Op(LitInt(1), "Divide", LitInt(0)) >>],
       [columns |-> << "x" >>, values |-> << Expr_Op(LitInt(I32_MAX), "Add", LitInt(1)) >>],
       [columns |-> << "y" >>, values |-> << Expr_Op(LitInt(6), "Divide", LitInt(2)) >>],
       [columns |-> << "y" >>, values |-> << Expr_Op(LitFloat(5, 2), "Divide", LitInt(0)) >>] >>

InsertQuery(table, shape) ==
    [table |-> table, columns |-> shape.columns, values |-> shape.values]

\* The counts file.write returns for a page: the whole page, or half of it,
\* or the page header short of its last byte, or two bytes.
ShortCounts == {PAGE_SIZE \div 2, U32_SIZE + USIZE_SIZE * 2 - 1, 2}
HalfPage == {PAGE_SIZE \div 2}
\* A whole page, or one of the counts of short when no call fails.
WriteCounts(io, short) == IF io = "ok" THEN {PAGE_SIZE} \cup short ELSE {PAGE_SIZE}

\* SELECT statements: a column list ("*" for all columns) and a condition.
SelectShapes ==
    << [columns |-> << "*" >>, condition |-> NoCondition],
       [columns |-> << "name" >>, condition |-> NoCondition],
       [columns |-> << "name", "id" >>,
        condition |-> Expr_Comp(Expr_Identifier("id"), "Gt", LitInt(1))],
       [columns |-> << "*" >>,
        condition |-> Expr_Comp(Expr_Identifier("id"), "Lt", LitFloat(7, 2))],
       [columns |-> << "*" >>,
        condition |-> Expr_Comp(Expr_Identifier("name"), "Eq", LitStr(1))],
       [columns |-> << "*" >>, condition |-> Expr_Comp(LitInt(1), "Eq", LitInt(2))],
       [columns |-> << "x" >>,
        condition |-> Expr_Comp(Expr_Identifier("x"), "Gt", LitInt(2))],
       [columns |-> << "y" >>,
        condition |-> Expr_Comp(Expr_Identifier("y"), "Gt", LitInt(2))],
       [columns |-> << "*" >>,
        condition |-> Expr_Comp(Expr_Op(LitInt(6), "Divide", Expr_Identifier("id")),
                                "Gt", LitInt(2))] >>

SelectQuery(table, shape) ==
    [table |-> table, columns |-> shape.columns, condition |-> shape.condition]

\* Calls of update_records: a set-list and a condition.
UpdateShapes ==
    << [values |-> << ColumnValue("name", Value_Str(Letters(3))) >>,
        condition |-> NoCondition],
       [values |-> << ColumnValue("name", Value_Str(Letters(3))) >>,
        condition |-> Expr_Comp(Expr_Identifier("id"), "Gt", LitInt(1))],
       [values |-> << ColumnValue("id", Value_Int(9)) >>,
        condition |-> Expr_Comp(Expr_Identifier("name"), "Eq", LitStr(1))],
       [values |-> << ColumnValue("nope", Value_Int(9)) >>,
        condition |-> NoCondition] >>

\* The arguments of a call of update_records, with the name of the table
\* whose definition is passed.
UpdateArguments(table, shape) ==
    [table |-> table, values |-> shape.values, condition |-> shape.condition]

VARIABLES db_definition, data_files, definitions_file, running, result, inserted,
          dropped, short_writes, expression, identifier_values, evaluated,
          current_schema, current_page, last_record, add_result, page_records, read_back

db_vars == << overflow_checks, db_definition, data_files, definitions_file, running,
              result, inserted, dropped, short_writes >>
eval_vars == << expression, identifier_values, evaluated >>
page_vars == << current_schema, current_page, last_record, add_result, page_records,
                read_back >>
vars == << overflow_checks, db_definition, data_files, definitions_file, running, result,
           inserted, dropped, short_writes, expression, identifier_values, evaluated,
           current_schema, current_page, last_record, add_result, page_records, read_back >>

NoExpression == [e |-> "None"]
NotEvaluated == Err("NotEvaluated", "")

NoQuery == [table |-> "", columns |-> << >>, values |-> << >>]
NoSelect == [table |-> "", columns |-> << >>, condition |-> NoCondition]
NoUpdate == [table |-> "", values |-> << >>, condition |-> NoCondition]

\* What a call returned (status "Panic" when it panicked instead).  io is
\* "ok" when the call made no file-system call.
Result(op, table, res) ==
    [op |-> op, table |-> table, status |-> IF res.ok THEN "Ok" ELSE res.err,
     msg |-> res.msg, io |-> "ok", query |-> NoQuery, select |-> NoSelect,
     update |-> NoUpdate, rows |-> << >>]

\* Database::new() in an empty base directory, in either build.
NewDatabase ==
    /\ overflow_checks \in BOOLEAN
    /\ db_definition = NoTables
    /\ data_files = NoTables
    /\ definitions_file = Absent
    /\ running = TRUE
    /\ result = Result("Start", "", Ok(<< >>))
    /\ inserted = [name \in TableNames |-> << >>]
    /\ dropped = [name \in TableNames |-> "never"]
    /\ short_writes = 0

\* No expression is under evaluation.
NoEvaluation ==
    /\ expression = NoExpression
    /\ identifier_values = NoValues
    /\ evaluated = NotEvaluated

\* No page is held in memory outside a statement.
NoPage == [id |-> 0, free_space_start |-> 0, free_space_end |-> 0, data |-> << >>]
NotRead == [read |-> FALSE, records |-> << >>]
NoPageUse ==
    /\ current_schema = << >>
    /\ current_page = NoPage
    /\ last_record = << >>
    /\ add_result = "None"
    /\ page_records = << >>
    /\ read_back = NotRead

Init ==
    /\ NewDatabase
    /\ NoEvaluation
    /\ NoPageUse

get_table_unnamed(tables, table_name) ==
    IF table_name \in DOMAIN tables
    THEN Ok(tables[table_name])
    ELSE Err("NotFound", "")
get_table(tables, table_name) ==
    IF table_name \in DOMAIN tables
    THEN Ok(tables[table_name])
    ELSE Err("NotFound", table_name)

\* run_create_table's test `self.get_table(&query.table).is_ok()`.
table_exists_never(tables, table_name) == FALSE
table_exists(tables, table_name) == get_table(tables, table_name).ok

\* HashMap::insert and HashMap::remove on db_definition.tables.
tables_insert(tables, table) ==
    [n \in DOMAIN tables \cup {table.name} |-> IF n = table.name THEN table ELSE tables[n]]
tables_remove_kept(tables, table_name) == tables
tables_remove(tables, table_name) == [n \in DOMAIN tables \ {table_name} |-> tables[n]]

\* create_table_files: File::create makes the data file, empty.
create_table_files(files, name) ==
    [n \in DOMAIN files \cup {name} |-> IF n = name THEN << >> ELSE files[n]]

\* delete_table_files: fs::remove_file takes the data file away.
delete_table_files_kept(files, name) == files
delete_table_files(files, name) == [n \in DOMAIN files \ {name} |-> files[n]]

(***************************************************************************)
(* Statements (engine/db.rs run_query and what it calls).  Each takes the  *)
(* file-system outcome io it runs under.                                   *)
(***************************************************************************)
CreateIO == {"ok", "create_fails"} \cup (StoreIO \ {"ok"})

run_create_table(table, columns, io) ==
    /\ running
    /\ IF table_exists(db_definition, table)
       THEN /\ result' = Result("CreateTable", table, Err("Conflict", table))
            /\ UNCHANGED << db_definition, data_files, definitions_file, inserted, dropped >>
       ELSE IF io = "create_fails"
       THEN /\ result' = [Result("CreateTable", table, IOError) EXCEPT !.io = io]
            /\ UNCHANGED << db_definition, data_files, definitions_file, inserted, dropped >>
       ELSE /\ data_files' = create_table_files(data_files, table)
            /\ inserted' = [inserted EXCEPT ![table] = << >>]
            /\ db_definition' = tables_insert(db_definition,
                                              [name |-> table, columns |-> columns])
            /\ \E order \in Orderings(DOMAIN db_definition') :
                  definitions_file' =
                      store_definitions(definitions_file, db_definition', order, io)
            /\ result' = [Result("CreateTable", table,
                                 IF io = "ok" THEN Ok(<< >>) ELSE IOError)
                             EXCEPT !.io = io]
            /\ dropped' = [dropped EXCEPT ![table] =
                              IF @ = "dropped" THEN "created_again" ELSE @]
    /\ UNCHANGED << overflow_checks, running, short_writes, eval_vars, page_vars >>

DropIO == {"ok", "remove_fails"}

\* remove_file fails on a file that is not there.
run_drop_table(table, io) ==
    /\ running
    /\ IF ~get_table(db_definition, table).ok
       THEN /\ result' = Result("DropTable", table, get_table(db_definition, table))
            /\ UNCHANGED << db_definition, data_files, inserted, dropped >>
       ELSE IF table \notin DOMAIN data_files \/ io = "remove_fails"
       THEN /\ result' = [Result("DropTable", table, IOError) EXCEPT !.io = io]
            /\ UNCHANGED << db_definition, data_files, inserted, dropped >>
       ELSE /\ data_files' = delete_table_files(data_files, table)
            /\ inserted' = [inserted EXCEPT ![table] = << >>]
            /\ db_definition' = tables_remove(db_definition, table)
            /\ result' = Result("DropTable", table, Ok(<< >>))
            /\ dropped' = [dropped EXCEPT ![table] = "dropped"]
    /\ UNCHANGED << overflow_checks, definitions_file, running, short_writes, eval_vars,
                    page_vars >>

\* run_insert returns res, or panics, before it opens the data file.
insert_returns(query, res, io) ==
    /\ result' = [Result("Insert", query.table, res) EXCEPT !.query = query, !.io = io]
    /\ running' = (res.err # "Panic")
    /\ UNCHANGED << data_files, inserted, short_writes >>

\* run_insert after insert_record ran on the opened file.  A panic ends the
\* process.
insert_record_returns(query, record, io, written, opened, done) ==
    /\ data_files' = [opened EXCEPT ![query.table] = done.file]
    /\ inserted' = IF ~done.panic /\ done.res.ok
                   THEN [inserted EXCEPT ![query.table] = Append(@, record)]
                   ELSE inserted
    /\ short_writes' = IF ~done.panic /\ done.res.ok /\ written < PAGE_SIZE
                       THEN short_writes + 1
                       ELSE short_writes
    /\ result' = [Result("Insert", query.table,
                         IF done.panic THEN Panic("") ELSE done.res)
                     EXCEPT !.query = query, !.io = io]
    /\ running' = ~done.panic

\* io is the outcome of insert_record's file-system calls and written the
\* count its file.write returns.
run_insert(table, shape, io, written) ==
    /\ running
    /\ written < PAGE_SIZE => short_writes < MaxShortWrites
    /\ LET query == InsertQuery(table, shape)
           found == get_table(db_definition, table)
           evaluated_expressions == evaluate_expressions(query)
           valid == validate_insert(found.value, query, evaluated_expressions.value)
       IN  IF ~found.ok THEN insert_returns(query, found, "ok")
           ELSE IF ~evaluated_expressions.ok
           THEN insert_returns(query, evaluated_expressions, "ok")
           ELSE IF ~valid.ok THEN insert_returns(query, valid, "ok")
           ELSE IF io = "open_fails" THEN insert_returns(query, IOError, io)
           ELSE insert_record_returns(
                    query, evaluated_expressions.value, io, written,
                    open_or_create(data_files, table),
                    insert_record(open_or_create(data_files, table)[table], found.value,
                                  evaluated_expressions.value, io, written))
    /\ UNCHANGED << overflow_checks, db_definition, definitions_file, dropped, eval_vars,
                    page_vars >>

\* What run_select or a call of update_records leaves: the Result, or the
\* panic that ends the process.
scan_returns(returned, scanned) ==
    IF scanned.panic
    THEN /\ result' = [returned EXCEPT !.status = "Panic"]
         /\ running' = FALSE
    ELSE /\ result' = [returned EXCEPT !.status = IF scanned.res.ok THEN "Ok"
                                                  ELSE scanned.res.err,
                                       !.msg = scanned.res.msg,
                                       !.rows = scanned.values]
         /\ UNCHANGED running

\* File::open fails on a file that is not there.
run_select(table, shape, io) ==
    /\ running
    /\ LET query == SelectQuery(table, shape)
           found == get_table(db_definition, table)
       IN  IF ~found.ok
           THEN scan_returns([Result("Select", table, found) EXCEPT !.select = query],
                             ScanFailed(found))
           ELSE IF table \notin DOMAIN data_files \/ io = "open_fails"
           THEN scan_returns([Result("Select", table, IOError)
                                 EXCEPT !.select = query, !.io = io],
                             ScanFailed(IOError))
           ELSE scan_returns([Result("Select", table, IOError)
                                 EXCEPT !.select = query, !.io = io],
                             select_records(data_files[table], found.value, query.columns,
                                            query.condition, io))
    /\ UNCHANGED << overflow_checks, db_definition, data_files, definitions_file, inserted,
                    dropped, short_writes, eval_vars, page_vars >>

\* update_records on a table of the catalog.  OpenOptions::create(true): a
\* missing data file is created empty.
update_table_records(table, shape, io) ==
    /\ running
    /\ table \in DOMAIN db_definition
    /\ LET query == UpdateArguments(table, shape)
       IN  IF io = "open_fails"
           THEN /\ scan_returns([Result("Update", table, IOError)
                                    EXCEPT !.update = query, !.io = io],
                                ScanFailed(IOError))
                /\ UNCHANGED data_files
           ELSE /\ data_files' = open_or_create(data_files, table)
                /\ scan_returns([Result("Update", table, IOError)
                                    EXCEPT !.update = query, !.io = io],
                                update_records(open_or_create(data_files, table)[table],
                                               db_definition[table], query.values,
                                               query.condition, io))
    /\ UNCHANGED << overflow_checks, db_definition, definitions_file, inserted, dropped,
                    short_writes, eval_vars, page_vars >>

BootIO == {"ok", "ensure_fails"} \cup (LoadIO \ {"ok"})

\* Database::bootstrap: `ensure_base_path()?`, then the catalog that
\* load_definitions returns replaces the one in memory, and an Err of it
\* leaves that one as it is.  The panic of load_definitions ends the process.
bootstrap(io) ==
    /\ running
    /\ IF io = "ensure_fails"
       THEN /\ result' = [Result("Bootstrap", "", Err("SystemError", "")) EXCEPT !.io = io]
            /\ UNCHANGED << db_definition, running >>
       ELSE IF load_definitions(definitions_file, io).panic
       THEN /\ result' = [Result("Bootstrap", "", Panic("")) EXCEPT !.io = io]
            /\ running' = FALSE
            /\ UNCHANGED db_definition
       ELSE /\ result' = [Result("Bootstrap", "", Ok(<< >>)) EXCEPT !.io = io]
            /\ db_definition' = IF load_definitions(definitions_file, io).res.ok
                                THEN load_definitions(definitions_file, io).res.value
                                ELSE db_definition
            /\ UNCHANGED running
    /\ UNCHANGED << overflow_checks, data_files, definitions_file, inserted, dropped,
                    short_writes, eval_vars, page_vars >>

\* The statements that are also run under a failing file-system call or a
\* short write, by their place in InsertShapes, QueryInsertShapes,
\* SelectShapes and UpdateShapes.
FaultyInserts == {1, 4}
FaultyQueries == {1}

\* An INSERT of shapes under io and written, with faults on the shapes faulty.
insert_statement(table, shapes, faulty, short) ==
    \E i \in 1..Len(shapes), io \in InsertIO :
        \E written \in WriteCounts(io, short) :
            /\ Len(inserted[table]) < MaxRecords
            /\ (io # "ok" \/ written < PAGE_SIZE) => i \in faulty
            /\ run_insert(table, shapes[i], io, written)

\* One run of the program (main.rs): Database::new(), then statements.
Next ==
    \/ \E table \in TableNames, columns \in Schemas, io \in CreateIO :
          run_create_table(table, columns, io)
    \/ \E table \in TableNames, io \in DropIO : run_drop_table(table, io)
    \/ \E table \in TableNames :
          insert_statement(table, InsertShapes, FaultyInserts, HalfPage)
    \/ \E table \in TableNames, io \in SelectIO : run_select(table, SelectShapes[1], io)

Spec == Init /\ [][Next]_vars

\* Inserts of long records into one table, until the file has three pages.
FileNext ==
    \/ \E table \in TableNames : run_create_table(table, Columns1, "ok")
    \/ \E table \in TableNames, i \in 1..Len(FileInsertShapes), io \in InsertIO :
          \E written \in WriteCounts(io, ShortCounts) :
              /\ Len(inserted[table]) < MaxFileRecords
              /\ run_insert(table, FileInsertShapes[i], io, written)
    \/ \E table \in TableNames : run_select(table, SelectShapes[1], "ok")

FileSpec == Init /\ [][FileNext]_vars

\* Statements on short records: every schema, INSERTs of every kind the
\* executor accepts or turns away, SELECTs with column lists and conditions,
\* DROP TABLE, and calls of the table file engine's update_records.
QueryNext ==
    \/ \E table \in TableNames, columns \in QuerySchemas, io \in CreateIO :
          run_create_table(table, columns, io)
    \/ \E table \in TableNames, io \in DropIO : run_drop_table(table, io)
    \/ \E table \in TableNames :
          insert_statement(table, QueryInsertShapes, FaultyQueries, HalfPage)
    \/ \E table \in TableNames, i \in 1..Len(SelectShapes), io \in SelectIO :
          /\ io # "ok" => i \in FaultyQueries
          /\ run_select(table, SelectShapes[i], io)
    \/ \E table \in TableNames, i \in 1..Len(UpdateShapes), io \in SelectIO :
          /\ io # "ok" => i \in FaultyQueries
          /\ update_table_records(table, UpdateShapes[i], io)

QuerySpec == Init /\ [][QueryNext]_vars

\* A database whose catalog is loaded again with Database::bootstrap, which
\* main.rs does not call: DDL statements, bootstrap, and an INSERT and a
\* SELECT to see the table files the catalog names.
BootNext ==
    \/ \E table \in TableNames, columns \in Schemas, io \in CreateIO :
          run_create_table(table, columns, io)
    \/ \E table \in TableNames, io \in DropIO : run_drop_table(table, io)
    \/ \E io \in BootIO : bootstrap(io)
    \/ \E table \in TableNames :
          /\ Len(inserted[table]) < MaxRecords
          /\ run_insert(table, InsertShapes[1], "ok", PAGE_SIZE)
    \/ \E table \in TableNames : run_select(table, SelectShapes[1], "ok")

BootSpec == Init /\ [][BootNext]_vars

(***************************************************************************)
(* Expression::evaluate on its own: a literal, an identifier, or a binary   *)
(* expression over them, with or without a binding, is evaluated once.     *)
(***************************************************************************)
OperandValues ==
    { Value_Int(0), Value_Int(2), Value_Int(3), Value_Int(-7), Value_Int(I32_MAX),
      Value_Float(f32_zero(0)), Value_Float(f32_zero(1)),
      Value_Float(f32_div_ints(5, 2)), Value_Float(f32_div_ints(3, 1)),
      Value_Float(f32_div_ints(-3, 2)),
      Value_Str(<< 97 >>), Value_Str(<< 97, 98 >>),
      Value_Bool(TRUE), Value_Bool(FALSE) }

Operands ==
    { Expr_Value(value) : value \in OperandValues }
    \cup { Expr_Identifier("x"), Expr_Identifier("z") }

Operators == {"Add", "Subtract", "Multiply", "Divide"}
Comparators == {"Eq", "Neq", "Gt", "Gte", "Lt", "Lte"}
LogicOperators == {"And", "Or"}

IsZero(exp) ==
    /\ exp.e = "Value"
    /\ \/ exp.value.t = "Int" /\ int_of(exp.value) = 0
       \/ exp.value.t = "Float" /\ f32_is_zero(exp.value.v)

Expressions ==
    Operands
    \cup
    { Expr_Op(exp1, operator, exp2) : exp1 \in Operands, operator \in Operators,
                                      exp2 \in Operands }
    \cup { Expr_Comp(exp1, comparator, exp2) : exp1 \in Operands, comparator \in Comparators,
                                              exp2 \in Operands }
    \cup { Expr_LogicOp(exp1, logic_operator, exp2) :
               exp1 \in Operands, logic_operator \in LogicOperators, exp2 \in Operands }

Bindings == { NoValues, [x |-> Value_Int(2)], [y |-> Value_Int(2)] }

EvalInit ==
    /\ NewDatabase
    /\ expression \in Expressions
    /\ identifier_values \in Bindings
    /\ evaluated = NotEvaluated
    /\ NoPageUse

evaluate_expression ==
    /\ expression # NoExpression
    /\ evaluated = NotEvaluated
    /\ evaluated' = evaluate(expression, identifier_values)
    /\ UNCHANGED << db_vars, expression, identifier_values, page_vars >>

EvalNext == evaluate_expression

EvalSpec == EvalInit /\ [][EvalNext]_vars

(***************************************************************************)
(* A Page on its own (engine/pages.rs): a new page of a table takes items  *)
(* built from records that match the table's columns, until MaxItems of    *)
(* them are in (an item that does not fit is turned away and others may    *)
(* follow), and is read back with get_items and to_record.  The records    *)
(* have every type, Nulls, the extreme Ints, empty strings, more than      *)
(* eight columns, and strings sized to fill half a page, a whole page, and *)
(* one byte more.                                                          *)
(***************************************************************************)
MaxItems == 3

Columns4 == << [name |-> "flag", column_type |-> "Bool"],
               [name |-> "y", column_type |-> "Float"],
               [name |-> "id", column_type |-> "Int"],
               [name |-> "name", column_type |-> "Str"] >>
Columns9 ==
    [i \in 1..9 |->
        [name |-> << "c1", "c2", "c3", "c4", "c5", "c6", "c7", "c8", "c9" >>[i],
         column_type |-> "Bool"]]
PageSchemas == {Columns1, Columns4, Columns9}

PageRecords(columns) ==
    CASE columns = Columns1 ->
           { << Value_Int(1), Value_Str(Letters(1)) >>,
             << Value_Null, Value_Str(Letters(2)) >>,
             << Value_Int(-2), Value_Null >>,
             << Value_Int(3), Value_Str(Letters(HalfLen)) >>,
             << Value_Int(3), Value_Str(Letters(HalfLen + 1)) >>,
             << Value_Int(4), Value_Str(Letters(FullLen)) >>,
             << Value_Int(5), Value_Str(Letters(FullLen + 1)) >> }
      [] columns = Columns4 ->
           { << Value_Bool(TRUE), Value_Float(f32_div_ints(5, 2)),
                Value_Int(2147483647), Value_Str(Letters(2)) >>,
             << Value_Bool(FALSE), Value_Float(f32_zero(1)),
                Value_Int(-2147483647 - 1), Value_Str(<< >>) >>,
             << Value_Null, Value_Float(f32_inf(0)), Value_Null, Value_Str(Letters(3)) >>,
             << Value_Bool(TRUE), Value_Null, Value_Int(0), Value_Null >>,
             << Value_Null, Value_Null, Value_Null, Value_Null >> }
      [] columns = Columns9 ->
           { [i \in 1..9 |-> Value_Bool(i % 2 = 1)],
             [i \in 1..9 |-> IF i = 9 THEN Value_Null ELSE Value_Bool(FALSE)],
             [i \in 1..9 |-> IF i \in {1, 8} THEN Value_Null ELSE Value_Bool(TRUE)] }

PageInit ==
    /\ NewDatabase
    /\ NoEvaluation
    /\ current_schema \in PageSchemas
    /\ current_page = page_new(1)
    /\ last_record = << >>
    /\ add_result = "None"
    /\ page_records = << >>
    /\ read_back = NotRead

\* Item::from_record then Page::add_item.
page_add_item(record) ==
    /\ Len(page_records) < MaxItems
    /\ current_page' = add_item(current_page, item_from_record(record)).page
    /\ add_result' = IF add_item(current_page, item_from_record(record)).panic
                     THEN "Panic"
                     ELSE IF add_item(current_page, item_from_record(record)).ok
                     THEN "Ok" ELSE "NotEnoughSpace"
    /\ page_records' = IF add_item(current_page, item_from_record(record)).ok
                       THEN Append(page_records, record) ELSE page_records
    /\ last_record' = record
    /\ read_back' = NotRead
    /\ UNCHANGED << db_vars, eval_vars, current_schema >>

\* Page::get_items then Item::to_record of each item.
page_get_items ==
    /\ current_page # NoPage
    /\ ~read_back.read
    /\ read_back' =
          [read |-> TRUE,
           records |-> [i \in 1..Len(get_items(current_page)) |->
                           item_to_record(get_items(current_page)[i],
                                          [name |-> "t", columns |-> current_schema])]]
    /\ UNCHANGED << db_vars, eval_vars, current_schema, current_page, last_record,
                    add_result, page_records >>

PageNext ==
    \/ \E record \in PageRecords(current_schema) : page_add_item(record)
    \/ page_get_items

PageSpec == PageInit /\ [][PageNext]_vars

(***************************************************************************)
(* Reading the state.                                                      *)
(***************************************************************************)
\* The whole pages of a data file, in file order: the pages insert_record
\* counts (the file's length / PAGE_SIZE).
Pages(file) ==
    [k \in 1..(Len(file) \div PAGE_SIZE) |->
        page_from_bytes(Slice(file, (k - 1) * PAGE_SIZE, k * PAGE_SIZE))]

LastPage(file) == Pages(file)[Len(file) \div PAGE_SIZE]

\* The bytes after the last whole page.
LastPart(file) == SubSeq(file, PAGE_SIZE * (Len(file) \div PAGE_SIZE) + 1, Len(file))

\* The bytes a slot of a page points at; << -1 >> for a slot that points
\* outside the body.
SlotBytes(page, offset_word, size_word) ==
    IF /\ usize_in_range(offset_word)
       /\ usize_in_range(size_word)
       /\ usize_from_be_bytes(offset_word) <= PAGE_DATA_SIZE
       /\ usize_from_be_bytes(size_word) <= PAGE_DATA_SIZE - usize_from_be_bytes(offset_word)
    THEN SubSeq(page.data, usize_from_be_bytes(offset_word) + 1,
                usize_from_be_bytes(offset_word) + usize_from_be_bytes(size_word))
    ELSE << -1 >>

\* The bytes each slot below free_space_start points at, in slot order (the
\* slots that lie in the body).
PageItemBytes(page) ==
    [k \in 1..((IF slots_end(page) > PAGE_DATA_SIZE THEN PAGE_DATA_SIZE ELSE slots_end(page))
                  \div (USIZE_SIZE * 2)) |->
        SlotBytes(page,
                  SubSeq(page.data, (k - 1) * USIZE_SIZE * 2 + 1,
                         (k - 1) * USIZE_SIZE * 2 + USIZE_SIZE),
                  SubSeq(page.data, (k - 1) * USIZE_SIZE * 2 + USIZE_SIZE + 1,
                         k * USIZE_SIZE * 2))]

\* The length a data file has once insert_record opened it: a missing file
\* is created empty.
OpenedLen(files, table) == IF table \in DOMAIN files THEN Len(files[table]) ELSE 0

\* The item an accepted INSERT passes to the table file.
ItemOf(query) == item_from_record(evaluate_expressions(query).value)

\* The step is a statement of that kind that returned Ok / did not.
InsertOk == result'.op = "Insert" /\ result'.status = "Ok"
InsertFailed == result'.op = "Insert" /\ result'.status # "Ok"

(***************************************************************************)
(* C1.  After successful INSERTs r1..rn into a table (n >= 1), SELECT *    *)
(* returns exactly r1..rn in that order.  Stated on the result of every    *)
(* SELECT * of a table that INSERTs have succeeded on, no file-system call *)
(* of the SELECT failing.                                                  *)
(***************************************************************************)
C1_SelectReturnsInserted ==
    (result.op = "Select" /\ result.io = "ok" /\ inserted[result.table] # << >>)
        => (result.status = "Ok" /\ result.rows = inserted[result.table])

(***************************************************************************)
(* C2.  An INSERT that fails, for whatever reason (the table is not in the *)
(* catalog, an expression does not evaluate, the values do not match the   *)
(* columns, the record is too long for a page, a file-system call fails,   *)
(* the statement panics), leaves the table's data file as it was: the      *)
(* files on disk are the same after the statement as before it.            *)
(***************************************************************************)
C2_FailedInsertLeavesFile ==
    [][InsertFailed => data_files' = data_files]_vars

\* INSERTs that failed on a data file that holds a record: one of a record
\* too long for a page, one whose division by zero does not evaluate, one
\* whose write failed.
C2_Witness ==
    /\ result.op = "Insert" /\ result.status # "Ok" /\ result.io = "ok"
    /\ result.query = InsertQuery(result.table, InsertShapes[5])
    /\ inserted[result.table] # << >>
    /\ Len(data_files[result.table]) >= PAGE_SIZE
C2_DivisionByZero ==
    /\ result.op = "Insert" /\ result.status = "ValidationError"
    /\ result.msg = "Division by 0"
    /\ inserted[result.table] # << >>
C2_WriteFailed ==
    /\ result.op = "Insert" /\ result.status = "IOError"
    /\ result.io = "write_fails"
    /\ inserted[result.table] # << >>

(***************************************************************************)
(* C3.  Every page of every data file satisfies                            *)
(* 0 <= free_space_start <= free_space_end <= body size.                   *)
(***************************************************************************)
C3_PageOffsetsOrdered ==
    \A table \in DOMAIN data_files :
        \A k \in 1..Len(Pages(data_files[table])) :
            LET page == Pages(data_files[table])[k]
            IN  /\ 0 <= page.free_space_start
                /\ page.free_space_start <= page.free_space_end
                /\ page.free_space_end <= PAGE_DATA_SIZE

(***************************************************************************)
(* C4.  An INSERT into a data file that holds a page, whose item and slot  *)
(* fit the last page's free space (also when they fill it exactly), adds   *)
(* the item to the last page in place: the file keeps its length, the      *)
(* pages before the last and the last page's id are unchanged and the last *)
(* page holds its old items followed by the new one.  Otherwise exactly    *)
(* one page is appended after the unchanged file, with id = last id + 1    *)
(* and the new item as its only item.                                      *)
(***************************************************************************)
C4_Step ==
    LET table == result'.table
        file == data_files[table]
        after == data_files'[table]
        item_data == item_to_page_data(ItemOf(result'.query))
        last == LastPage(file)
        fits == Len(item_data) + 2 * USIZE_SIZE <= last.free_space_end - last.free_space_start
    IN  (InsertOk /\ OpenedLen(data_files, table) >= PAGE_SIZE) =>
            IF fits
            THEN /\ Len(after) = Len(file)
                 /\ SubSeq(after, 1, Len(file) - PAGE_SIZE) = SubSeq(file, 1, Len(file) - PAGE_SIZE)
                 /\ LastPage(after).id = last.id
                 /\ PageItemBytes(LastPage(after)) = Append(PageItemBytes(last), item_data)
            ELSE /\ Len(after) = Len(file) + PAGE_SIZE
                 /\ SubSeq(after, 1, Len(file)) = file
                 /\ LastPage(after).id = last.id + 1
                 /\ PageItemBytes(LastPage(after)) = << item_data >>

C4_InsertIntoLastPageOrAppend == [][C4_Step]_vars

(***************************************************************************)
(* C5.  The k-th page of every data file has id k: each whole page, and    *)
(* the part of a page after them when it holds the bytes of an id.         *)
(***************************************************************************)
C5_PageIdsConsecutive ==
    \A table \in DOMAIN data_files :
        /\ \A k \in 1..(Len(data_files[table]) \div PAGE_SIZE) :
              Pages(data_files[table])[k].id = k
        /\ Len(LastPart(data_files[table])) >= U32_SIZE =>
              u32_from_be_bytes(SubSeq(LastPart(data_files[table]), 1, U32_SIZE))
                  = Len(data_files[table]) \div PAGE_SIZE + 1

\* A file of three pages, the second and the third allocated by INSERTs that
\* did not fit the page before; a file of a page and a part of the second.
C5_Witness ==
    /\ result.op = "Insert" /\ result.status = "Ok"
    /\ result.table \in DOMAIN data_files
    /\ Len(Pages(data_files[result.table])) = 3
C5_PartOfSecondPage ==
    /\ result.op = "Insert" /\ result.status = "Ok"
    /\ result.table \in DOMAIN data_files
    /\ Len(data_files[result.table]) = PAGE_SIZE + PAGE_SIZE \div 2

(***************************************************************************)
(* C6.  After every successful INSERT the data file's length is a positive *)
(* multiple of PAGE_SIZE and is its length before the INSERT or PAGE_SIZE  *)
(* more.                                                                   *)
(***************************************************************************)
C6_Step ==
    LET table == result'.table
        before == OpenedLen(data_files, table)
        now == Len(data_files'[table])
    IN  InsertOk =>
            /\ now > 0
            /\ now % PAGE_SIZE = 0
            /\ now = before \/ now = before + PAGE_SIZE

C6_FileLengthAfterInsert == [][C6_Step]_vars

(***************************************************************************)
(* C7.  CREATE TABLE of a name the catalog holds returns Conflict(name)    *)
(* and leaves the catalog, in memory and on disk, as it was.               *)
(***************************************************************************)
C7_Step ==
    (result'.op = "CreateTable" /\ result'.table \in DOMAIN db_definition) =>
        /\ result'.status = "Conflict"
        /\ result'.msg = result'.table
        /\ db_definition' = db_definition
        /\ definitions_file' = definitions_file

C7_CreateExistingIsConflict == [][C7_Step]_vars

\* CREATE TABLE was turned away with Conflict for a table that holds a record.
C7_Witness ==
    /\ result.op = "CreateTable" /\ result.status = "Conflict"
    /\ result.table \in DOMAIN db_definition
    /\ inserted[result.table] # << >>

(***************************************************************************)
(* C8.  After any sequence of CREATE TABLE and DROP TABLE statements, each *)
(* successful or failed (and of the INSERTs and SELECTs between them), a   *)
(* table name is a key of the catalog if and only if that table's data     *)
(* file exists on disk.                                                    *)
(***************************************************************************)
C8_CatalogMatchesDataFiles ==
    DOMAIN db_definition = DOMAIN data_files

\* A DROP TABLE has removed a table and its file; a CREATE TABLE that failed
\* to store the catalog file has left a table and its file; a DROP TABLE
\* that failed to remove the file has left both.
C8_Witness ==
    /\ result.op = "DropTable" /\ result.status = "Ok"
    /\ result.table \notin DOMAIN db_definition
    /\ result.table \notin DOMAIN data_files
C8_AfterFailedCreate ==
    /\ result.op = "CreateTable" /\ result.status = "IOError"
    /\ result.io \in StoreIO
    /\ result.table \in DOMAIN db_definition
    /\ result.table \in DOMAIN data_files
C8_AfterFailedDrop ==
    /\ result.op = "DropTable" /\ result.status = "IOError"
    /\ result.table \in DOMAIN db_definition
    /\ result.table \in DOMAIN data_files

(***************************************************************************)
(* C9.  After every successful CREATE TABLE or DROP TABLE the catalog file *)
(* holds the in-memory catalog: loading it gives the same tables.          *)
(***************************************************************************)
C9_CatalogFileMatchesAfterDDL ==
    (result.op \in {"CreateTable", "DropTable"} /\ result.status = "Ok")
        => load_definitions(definitions_file, "ok")
               = [panic |-> FALSE, res |-> Ok(db_definition)]

(***************************************************************************)
(* C10.  A CREATE TABLE that fails leaves the catalog as it was before the *)
(* statement.                                                              *)
(***************************************************************************)
C10_FailedCreateLeavesCatalog ==
    [][(result'.op = "CreateTable" /\ result'.status # "Ok")
          => db_definition' = db_definition]_vars

(***************************************************************************)
(* C11.  INSERT, SELECT and DROP TABLE of a table that is not in the       *)
(* catalog return NotFound(name), and the catalog, the data files and the  *)
(* catalog file are after the statement what they were before it.          *)
(***************************************************************************)
C11_Step ==
    (result'.op \in {"Insert", "Select", "DropTable"}
        /\ result'.table \notin DOMAIN db_definition) =>
        /\ result'.status = "NotFound"
        /\ result'.msg = result'.table
        /\ db_definition' = db_definition
        /\ data_files' = data_files
        /\ definitions_file' = definitions_file

C11_AbsentTableIsNotFound == [][C11_Step]_vars

\* DROP TABLE, INSERT and SELECT were turned away with NotFound for a table
\* that a DROP TABLE had taken out of the catalog.
C11_Witness ==
    /\ result.op = "DropTable" /\ result.status = "NotFound"
    /\ result.table \notin DOMAIN db_definition
    /\ dropped[result.table] = "dropped"
C11_InsertAfterDrop ==
    /\ result.op = "Insert" /\ result.status = "NotFound"
    /\ result.table \notin DOMAIN db_definition
    /\ dropped[result.table] = "dropped"
C11_SelectAfterDrop ==
    /\ result.op = "Select" /\ result.status = "NotFound"
    /\ result.table \notin DOMAIN db_definition
    /\ dropped[result.table] = "dropped"

(***************************************************************************)
(* C12.  A successful DROP TABLE t leaves t out of the catalog and without *)
(* a data file, and a CREATE TABLE t that follows it (no CREATE TABLE has  *)
(* added t in between) does not return Conflict: it returns Ok when none   *)
(* of its file-system calls fails, and whenever it adds the table the      *)
(* table's data file is empty and no record of the dropped table is one of *)
(* its records.                                                            *)
(***************************************************************************)
C12_Step ==
    /\ (result'.op = "DropTable" /\ result'.status = "Ok") =>
           /\ result'.table \notin DOMAIN db_definition'
           /\ result'.table \notin DOMAIN data_files'
    /\ (result'.op = "CreateTable" /\ dropped[result'.table] = "dropped") =>
           /\ result'.status # "Conflict"
           /\ result'.io = "ok" => result'.status = "Ok"
           /\ result'.table \in DOMAIN db_definition' =>
                 /\ data_files'[result'.table] = << >>
                 /\ inserted'[result'.table] = << >>

C12_DropThenCreateSucceeds == [][C12_Step]_vars

\* CREATE TABLE returned Ok for a table that a DROP TABLE had removed.
C12_Witness ==
    /\ result.op = "CreateTable" /\ result.status = "Ok"
    /\ dropped[result.table] = "created_again"
    /\ data_files[result.table] = << >>

(***************************************************************************)
(* C13.  An INSERT into a table of the catalog returns ValidationError and *)
(* leaves every data file as it was when the number of listed columns      *)
(* differs from the number of values, when a listed column is not a column *)
(* of the table, or when the type of an evaluated value differs from the   *)
(* declared type of the column it is paired with.                          *)
(***************************************************************************)
ColumnNames(columns) == { columns[i].name : i \in 1..Len(columns) }

DeclaredType(columns, column_name) ==
    columns[CHOOSE i \in 1..Len(columns) : columns[i].name = column_name].column_type

ArityDiffers(query) == Len(query.columns) # Len(query.values)

UnknownColumn(query, columns) ==
    \E i \in 1..Len(query.columns) : query.columns[i] \notin ColumnNames(columns)

TypeDiffers(query, columns) ==
    /\ evaluate_expressions(query).ok
    /\ \E i \in 1..Len(query.columns) :
          /\ i <= Len(query.values)
          /\ query.columns[i] \in ColumnNames(columns)
          /\ evaluate_expressions(query).value[i].t # DeclaredType(columns, query.columns[i])

C13_Step ==
    LET query == result'.query
        columns == db_definition[query.table].columns
    IN  (result'.op = "Insert" /\ query.table \in DOMAIN db_definition
            /\ (ArityDiffers(query) \/ UnknownColumn(query, columns)
                   \/ TypeDiffers(query, columns))) =>
            /\ result'.status = "ValidationError"
            /\ data_files' = data_files

C13_InvalidInsertIsRejected == [][C13_Step]_vars

(***************************************************************************)
(* C14.  The record an accepted INSERT stores and every record a scan      *)
(* returns have as many values as the table has columns, and at each       *)
(* position a value of that column's declared type or Null.                *)
(***************************************************************************)
Conforms(record, columns) ==
    /\ Len(record) = Len(columns)
    /\ \A i \in 1..Len(columns) : record[i].t \in {columns[i].column_type, "Null"}

C14_RecordsMatchSchema ==
    LET table == result.table
        columns == db_definition[table].columns
    IN  /\ (result.op = "Insert" /\ result.status = "Ok") =>
               Conforms(inserted[table][Len(inserted[table])], columns)
        /\ (result.op = "Select" /\ result.status = "Ok") =>
               \A i \in 1..Len(result.rows) : Conforms(result.rows[i], columns)

(***************************************************************************)
(* C15.  A SELECT of a table that holds records r1..rn returns Ok with the *)
(* ri, in that order, for which the condition evaluates to Bool(true)      *)
(* under the binding of column names to ri's values: all of them when      *)
(* there is no condition, none when the condition is Bool(false) for every *)
(* record.  (A condition whose evaluation fails on a record is not a case  *)
(* of the claim.)                                                          *)
(***************************************************************************)
ConditionValue(condition, table, record) ==
    IF condition = NoCondition THEN Ok(Value_Bool(TRUE))
    ELSE evaluate_for_record(condition, table, record)

Matching(records, table, condition) ==
    SelectSeq(records,
              LAMBDA record : ConditionValue(condition, table, record).value = Value_Bool(TRUE))

\* The stored records have one value per column, and the condition has a
\* value on each.
ConditionDefined(records, table, condition) ==
    \A i \in 1..Len(records) :
        /\ Len(records[i]) = Len(table.columns)
        /\ ConditionValue(condition, table, records[i]).ok

C15_SelectReturnsMatching ==
    LET table == result.table
        condition == result.select.condition
    IN  (result.op = "Select" /\ table \in DOMAIN db_definition
            /\ table \in DOMAIN data_files
            /\ ConditionDefined(inserted[table], db_definition[table], condition)) =>
            /\ result.status = "Ok"
            /\ result.rows = Matching(inserted[table], db_definition[table], condition)

(***************************************************************************)
(* C16.  A SELECT with a column list returns, for each matching record,    *)
(* the values of the listed columns in the listed order; with * it returns *)
(* the values of all columns in schema order.                              *)
(***************************************************************************)
Project(record, columns, table) ==
    IF columns = << "*" >> THEN record
    ELSE [k \in 1..Len(columns) |-> record[get_column(table, columns[k])]]

C16_SelectProjects ==
    LET table == result.table
        query == result.select
        matching == Matching(inserted[table], db_definition[table], query.condition)
    IN  (result.op = "Select" /\ result.status = "Ok"
            /\ (query.columns = << "*" >>
                   \/ \A k \in 1..Len(query.columns) :
                         query.columns[k] \in ColumnNames(db_definition[table].columns))) =>
            result.rows = [i \in 1..Len(matching) |->
                              Project(matching[i], query.columns, db_definition[table])]

(***************************************************************************)
(* C17.  A division whose operands are numeric literals and whose divisor  *)
(* is Int 0 or Float 0.0 evaluates to a ValidationError, for an Int and    *)
(* for a Float dividend.                                                   *)
(***************************************************************************)
IsNumeric(exp) == exp.e = "Value" /\ exp.value.t \in {"Int", "Float"}

C17_DivisionByZeroFails ==
    (evaluated # NotEvaluated /\ expression.e = "Op" /\ expression.operator = "Divide"
        /\ IsNumeric(expression.exp1) /\ IsZero(expression.exp2)) =>
        (~evaluated.ok /\ evaluated.err = "ValidationError")

(***************************************************************************)
(* C18.  INSERT INTO n (x) VALUES (6/2) into a table whose only column   *)
(* is x int returns Ok and stores the record (Float(3.0)).                 *)
(***************************************************************************)
Quotient == Expr_Op(LitInt(6), "Divide", LitInt(2))
Float3 == Value_Float(<< 64, 64, 0, 0 >>)

C18_QuotientStoredInIntColumn ==
    LET table == result.table
    IN  (result.op = "Insert" /\ table \in DOMAIN db_definition
            /\ db_definition[table].columns = Columns2
            /\ result.query.columns = << "x" >> /\ result.query.values = << Quotient >>) =>
            /\ result.status = "Ok"
            /\ inserted[table] # << >>
            /\ inserted[table][Len(inserted[table])] = << Float3 >>

(***************************************************************************)
(* C19.  A comparison of two literals evaluates to a ValidationError when  *)
(* the operands are not both numeric, both Str or both Bool, and when they *)
(* are both Bool and the comparator is <, <=, > or >=.                     *)
(***************************************************************************)
Comparable(value1, comparator, value2) ==
    \/ value1.t \in {"Int", "Float"} /\ value2.t \in {"Int", "Float"}
    \/ value1.t = "Str" /\ value2.t = "Str"
    \/ value1.t = "Bool" /\ value2.t = "Bool" /\ comparator \in {"Eq", "Neq"}

C19_MismatchedComparisonFails ==
    (evaluated # NotEvaluated /\ expression.e = "Comp"
        /\ expression.exp1.e = "Value" /\ expression.exp2.e = "Value"
        /\ ~Comparable(expression.exp1.value, expression.comparator,
                       expression.exp2.value)) =>
        (~evaluated.ok /\ evaluated.err = "ValidationError")

(***************************************************************************)
(* C20.  For an Int literal i and a Float literal f, Int(i) < Float(f)     *)
(* evaluates to Bool(i as float < f), and Float(f) > Int(i) evaluates to   *)
(* the same.                                                               *)
(***************************************************************************)
C20_IntFloatOrderingPromotes ==
    LET exp1 == expression.exp1
        exp2 == expression.exp2
        promoted == f32_partial_cmp(f32_of_i32(int_of(exp1.value)), exp2.value.v) = "Less"
    IN  (evaluated # NotEvaluated /\ expression.e = "Comp" /\ expression.comparator = "Lt"
            /\ exp1.e = "Value" /\ exp1.value.t = "Int"
            /\ exp2.e = "Value" /\ exp2.value.t = "Float") =>
            /\ evaluated = Ok(Value_Bool(promoted))
            /\ evaluate(Expr_Comp(exp2, "Gt", exp1), identifier_values) = evaluated
(***************************************************************************)
(* C21.  An identifier evaluates to a ValidationError when no binding is   *)
(* supplied and when the binding has no entry for it, and to the bound     *)
(* value otherwise.  An expression with such an identifier as an operand   *)
(* evaluates to a ValidationError in the first two cases and to what the   *)
(* expression with the bound value in the identifier's place evaluates to  *)
(* in the third.  As the value of an INSERT, which supplies no binding, an *)
(* expression with an identifier is a ValidationError.                     *)
(***************************************************************************)
IsIdentifier(exp) == exp.e = "Identifier"
IsBinary(exp) == exp.e \in {"Op", "Comp", "LogicOp"}
HasIdentifier(exp) ==
    IsIdentifier(exp) \/ (IsBinary(exp) /\ (IsIdentifier(exp.exp1) \/ IsIdentifier(exp.exp2)))

IsBound(exp, binding) == binding # NoValues /\ exp.name \in DOMAIN binding

\* An operand with the bound value in the place of a bound identifier.
BoundOperand(exp, binding) ==
    IF IsIdentifier(exp) /\ IsBound(exp, binding) THEN Expr_Value(binding[exp.name]) ELSE exp

HasUnbound(exp, binding) ==
    \/ IsIdentifier(exp) /\ ~IsBound(exp, binding)
    \/ IsBinary(exp) /\ \/ IsIdentifier(exp.exp1) /\ ~IsBound(exp.exp1, binding)
                        \/ IsIdentifier(exp.exp2) /\ ~IsBound(exp.exp2, binding)

IsValidationError(res) == ~res.ok /\ res.err = "ValidationError"

C21_IdentifierEvaluation ==
    (evaluated # NotEvaluated /\ HasIdentifier(expression)) =>
        /\ HasUnbound(expression, identifier_values) => IsValidationError(evaluated)
        /\ (IsIdentifier(expression) /\ IsBound(expression, identifier_values)) =>
               evaluated = Ok(identifier_values[expression.name])
        /\ (IsBinary(expression) /\ ~HasUnbound(expression, identifier_values)) =>
               evaluated = evaluate([expression EXCEPT
                                        !.exp1 = BoundOperand(@, identifier_values),
                                        !.exp2 = BoundOperand(@, identifier_values)],
                                    NoValues)
        /\ IsValidationError(evaluate_expressions(
               InsertQuery("t", [columns |-> << "x" >>, values |-> << expression >>])))

\* Each case happened: an identifier evaluated without a binding, with a
\* binding that lacks it, and with a binding that has it; the last also as
\* the operand of an operator that succeeded.
C21_NoBinding ==
    evaluated # NotEvaluated /\ IsIdentifier(expression) /\ identifier_values = NoValues
C21_NotInBinding ==
    /\ evaluated # NotEvaluated /\ IsIdentifier(expression)
    /\ identifier_values # NoValues /\ ~IsBound(expression, identifier_values)
C21_Witness ==
    /\ evaluated = Ok(Value_Int(5))
    /\ expression = Expr_Op(Expr_Identifier("x"), "Add", Expr_Value(Value_Int(3)))
    /\ identifier_values # NoValues

(***************************************************************************)
(* C22.  For a record that matches the table's columns (each value of its  *)
(* column's type, or Null), to_record of from_record of the record is the  *)
(* record; so it is when the item goes through to_page_data and            *)
(* from_page_data; and get_items and to_record of a page give the records  *)
(* whose items add_item accepted, in that order.                           *)
(***************************************************************************)
CurrentTable == [name |-> "t", columns |-> current_schema]
Decoded(record) == [panic |-> FALSE, values |-> record]

C22_ItemRoundTrip ==
    /\ add_result # "None" =>
          /\ item_to_record(item_from_record(last_record), CurrentTable)
                 = Decoded(last_record)
          /\ item_to_record(
                 item_from_page_data(item_to_page_data(item_from_record(last_record))),
                 CurrentTable) = Decoded(last_record)
    /\ read_back.read =>
          read_back.records = [i \in 1..Len(page_records) |-> Decoded(page_records[i])]

\* A page of three records, Nulls among them, was read back.
C22_Witness ==
    /\ read_back.read
    /\ Len(page_records) = 3
    /\ \E i \in 1..3 : \E c \in 1..Len(current_schema) : page_records[i][c] = Value_Null
    /\ \E i \in 1..3 : \A c \in 1..Len(current_schema) : page_records[i][c] # Value_Null

(***************************************************************************)
(* C23.  An INSERT of a record that matches the table's columns and whose  *)
(* item and slot entry are larger than the body of a page does not return  *)
(* Ok, when the data file is empty and when it holds pages, and the file   *)
(* holds the bytes it held: no page is written or appended.  When no write *)
(* before it stored part of a page, the INSERT returns the error of the    *)
(* file-system call that failed before add_item was reached, and           *)
(* otherwise the QueryError made from PagingError::NotEnoughSpace.  That   *)
(* conversion is not in the source: its variant, ValidationError, is the   *)
(* specification's (4.4, 7).                                               *)
(***************************************************************************)
Oversized(query) ==
    Len(item_to_page_data(ItemOf(query))) + 2 * USIZE_SIZE > PAGE_DATA_SIZE

\* The INSERT lists the table's columns in order with values that match them.
WellTyped(query, columns) ==
    /\ query.columns = [i \in 1..Len(columns) |-> columns[i].name]
    /\ evaluate_expressions(query).ok
    /\ Conforms(evaluate_expressions(query).value, columns)

\* The file-system call fails before insert_record reaches add_item.
FailsBeforeAddItem(io, file) ==
    \/ io \in {"open_fails", "metadata_fails"}
    \/ io = "read_fails" /\ Len(file) >= PAGE_SIZE

C23_Step ==
    LET query == result'.query
        table == result'.table
    IN  (result'.op = "Insert" /\ table \in DOMAIN db_definition
            /\ WellTyped(query, db_definition[table].columns) /\ Oversized(query)) =>
            /\ result'.status # "Ok"
            /\ data_files' = data_files
            /\ short_writes = 0 =>
                  IF FailsBeforeAddItem(result'.io, data_files[table])
                  THEN result'.status = "IOError"
                  ELSE /\ result'.status = paging_error.err
                       /\ result'.msg = paging_error.msg
                       /\ result'.status = "ValidationError"

C23_EmptyFile ==
    /\ result.op = "Insert" /\ result.status = "ValidationError"
    /\ result.table \in DOMAIN db_definition /\ result.table \in DOMAIN data_files
    /\ WellTyped(result.query, db_definition[result.table].columns)
    /\ Oversized(result.query)
    /\ data_files[result.table] = << >>

(***************************************************************************)
(* C24.  add_item returns NotEnoughSpace exactly when the item's size and  *)
(* two words are more than free_space_end - free_space_start, and then the *)
(* page is as it was; otherwise it returns Ok, free_space_start is two     *)
(* words higher and free_space_end is lower by the item's size.  The       *)
(* item's size is counted from the record: a word for the number of        *)
(* fields, the bytes of the null map, and each value's bytes.              *)
(***************************************************************************)
ValueSize(value) ==
    CASE value.t = "Str" -> USIZE_SIZE + Len(value.v)
      [] value.t = "Int" -> 4
      [] value.t = "Float" -> 4
      [] value.t = "Bool" -> 1
      [] value.t = "Null" -> 0

RECURSIVE ValuesSize(_)
ValuesSize(record) ==
    IF record = << >> THEN 0 ELSE ValueSize(Head(record)) + ValuesSize(Tail(record))

ItemSize(record) == USIZE_SIZE + (Len(record) + 7) \div 8 + ValuesSize(record)

\* The step is an add_item.
AddItemStep == add_result' # "None" /\ ~read_back'.read

C24_Step ==
    AddItemStep =>
        IF ItemSize(last_record') + 2 * USIZE_SIZE
               > current_page.free_space_end - current_page.free_space_start
        THEN /\ add_result' = "NotEnoughSpace"
             /\ current_page' = current_page
        ELSE /\ add_result' = "Ok"
             /\ current_page'.id = current_page.id
             /\ current_page'.free_space_start
                    = current_page.free_space_start + 2 * USIZE_SIZE
             /\ current_page'.free_space_end
                    = current_page.free_space_end - ItemSize(last_record')

C24_AddItemTestsFreeSpace == [][C24_Step]_vars

\* An item was turned away for one byte; an item filled the page exactly.
C24_Witness ==
    /\ add_result = "NotEnoughSpace"
    /\ page_records # << >>
    /\ ItemSize(last_record) + 2 * USIZE_SIZE
           = current_page.free_space_end - current_page.free_space_start + 1
C24_ExactFit ==
    /\ add_result = "Ok"
    /\ Len(page_records) = 2
    /\ current_page.free_space_end = current_page.free_space_start

(***************************************************************************)
(* C25.  After any sequence of add_item calls on a new page the slot       *)
(* directory is well formed: the number of slots is free_space_start over  *)
(* two words and is the number of add_item calls that returned Ok; slot i  *)
(* holds the offset and size of the i-th item added, the items being laid  *)
(* from the end of the body downwards, and get_items gives the items in    *)
(* the order they were added; every slot's region is inside                *)
(* [free_space_end, PAGE_DATA_SIZE); no two regions overlap and none       *)
(* overlaps the directory [0, free_space_start).                           *)
(***************************************************************************)
RECURSIVE SizeOfFirst(_, _)
SizeOfFirst(records, n) ==
    IF n = 0 THEN 0 ELSE ItemSize(records[n]) + SizeOfFirst(records, n - 1)

PageDataOf(record) == item_to_page_data(item_from_record(record))

C25_SlotDirectoryWellFormed ==
    LET slots == get_item_offset_and_sizes(current_page)
        n == Len(slots)
    IN  current_page # NoPage =>
            /\ current_page.free_space_start = n * 2 * USIZE_SIZE
            /\ n = Len(page_records)
            /\ \A i \in 1..n :
                  /\ slots[i][2] = ItemSize(page_records[i])
                  /\ slots[i][1] = PAGE_DATA_SIZE - SizeOfFirst(page_records, i)
                  /\ Slice(current_page.data, slots[i][1], slots[i][1] + slots[i][2])
                         = PageDataOf(page_records[i])
                  /\ get_items(current_page)[i]
                         = item_from_page_data(PageDataOf(page_records[i]))
                  /\ slots[i][1] >= current_page.free_space_end
                  /\ slots[i][1] + slots[i][2] <= PAGE_DATA_SIZE
                  /\ slots[i][1] >= current_page.free_space_start
            /\ Len(get_items(current_page)) = n
            /\ \A i, j \in 1..n :
                  i < j => slots[j][1] + slots[j][2] <= slots[i][1]

\* A page took three items of different sizes and was read back; a page
\* took two items and then turned one away.
C25_Witness ==
    /\ Len(page_records) = 3
    /\ ItemSize(page_records[1]) # ItemSize(page_records[2])
    /\ ItemSize(page_records[2]) # ItemSize(page_records[3])
    /\ read_back.read
C25_AfterRefusal ==
    /\ Len(page_records) = 2
    /\ add_result = "NotEnoughSpace"

(***************************************************************************)
(* C26.  After update_records with set-list S and optional condition C     *)
(* returns successfully, a scan of the table returns every record that     *)
(* matched C (all records when C is absent) with the columns named in S    *)
(* replaced by the given values, and every record that did not match       *)
(* unchanged, in the original order.                                       *)
(***************************************************************************)
\* The record with the columns named in the set-list replaced; when a column
\* is named twice the later entry stands.
Replaced(record, table, values) ==
    [ c \in 1..Len(record) |->
        IF \E k \in 1..Len(values) : values[k].column = table.columns[c].name
        THEN values[CHOOSE k \in 1..Len(values) :
                      /\ values[k].column = table.columns[c].name
                      /\ \A j \in (k + 1)..Len(values) :
                            values[j].column # table.columns[c].name].value
        ELSE record[c] ]

\* What a scan is to return after the update of these records.
Updated(records, table, values, condition) ==
    [ i \in 1..Len(records) |->
        IF ConditionValue(condition, table, records[i]).value = Value_Bool(TRUE)
        THEN Replaced(records[i], table, values)
        ELSE records[i] ]

\* A scan of the whole table file.
ScanOf(file, table) == select_records(file, table, << "*" >>, NoCondition, "ok")

C26_Step ==
    (result'.op = "Update" /\ result'.status = "Ok"
        /\ result'.table \in DOMAIN data_files)
    => ScanOf(data_files'[result'.table], db_definition[result'.table]).values
       = Updated(ScanOf(data_files[result'.table], db_definition[result'.table]).values,
                 db_definition[result'.table], result'.update.values,
                 result'.update.condition)

C26_UpdateReplacesValues == [][C26_Step]_vars

\* An update that matched every stored record returned successfully.
C26_UpdateOfStoredRecord ==
    /\ result.op = "Update" /\ result.status = "Ok"
    /\ result.update.condition = NoCondition
    /\ result.table \in DOMAIN data_files
    /\ Len(ScanOf(data_files[result.table], db_definition[result.table]).values) > 0

\* An update whose condition was met by no stored record returned successfully.
C26_UpdateOfNoRecord ==
    /\ result.op = "Update" /\ result.status = "Ok"
    /\ result.update.condition # NoCondition
    /\ result.table \in DOMAIN data_files
    /\ Len(ScanOf(data_files[result.table], db_definition[result.table]).values) > 0
    /\ Matching(ScanOf(data_files[result.table], db_definition[result.table]).values,
                db_definition[result.table], result.update.condition) = << >>

(***************************************************************************)
(* C27 as stated.  For every binary expression (arithmetic, comparison or logic) the *)
(* left operand is evaluated before the right, and when evaluation of the  *)
(* left operand fails the expression returns that left error, whatever the *)
(* right operand is; an operator-level error (type mismatch, division by   *)
(* zero) is reported only when both operands evaluated successfully: when  *)
(* the left operand evaluates and the right one fails, the expression      *)
(* returns the right operand's error.                                      *)
(***************************************************************************)
LeftOf(exp, binding) == evaluate(exp.exp1, binding)
RightOf(exp, binding) == evaluate(exp.exp2, binding)

NotBoolean == Err("ValidationError", "Value is not boolean")

\* The left operand's error comes back, whatever the right operand is.
LeftErrorIsReturned(exp, binding, res) ==
    ~LeftOf(exp, binding).ok => res = LeftOf(exp, binding)

\* After a left operand that evaluated, the right operand's error comes back.
RightErrorIsReturned(exp, binding, res) ==
    (LeftOf(exp, binding).ok /\ ~RightOf(exp, binding).ok) => res = RightOf(exp, binding)

C27_OperandErrorsFirst ==
    (evaluated # NotEvaluated /\ IsBinary(expression)) =>
        /\ LeftErrorIsReturned(expression, identifier_values, evaluated)
        /\ RightErrorIsReturned(expression, identifier_values, evaluated)

(***************************************************************************)
(* C27 amended.  The left operand is evaluated before the right, and when  *)
(* it fails the expression returns that left error, whatever the right     *)
(* operand is.  AND / OR test the left value for Bool before the right     *)
(* operand is evaluated, so a left value that is not Bool is reported as   *)
(* "Value is not boolean" even when the right operand would fail; in every *)
(* other case a right operand that fails has its error returned, and an    *)
(* operator-level error needs both operands to have evaluated.             *)
(***************************************************************************)
LeftIsNotBool(exp, binding) ==
    /\ exp.e = "LogicOp"
    /\ LeftOf(exp, binding).ok
    /\ LeftOf(exp, binding).value.t # "Bool"

C27_LeftErrorsFirst ==
    (evaluated # NotEvaluated /\ IsBinary(expression)) =>
        /\ LeftErrorIsReturned(expression, identifier_values, evaluated)
        /\ IF LeftIsNotBool(expression, identifier_values)
           THEN evaluated = NotBoolean
           ELSE RightErrorIsReturned(expression, identifier_values, evaluated)

\* Both operands fail, each with its own error, and the left one is returned.
C27_Witness ==
    /\ evaluated # NotEvaluated
    /\ IsBinary(expression)
    /\ ~LeftOf(expression, identifier_values).ok
    /\ ~RightOf(expression, identifier_values).ok
    /\ LeftOf(expression, identifier_values) # RightOf(expression, identifier_values)
    /\ evaluated = LeftOf(expression, identifier_values)

\* 2 AND z with z unbound: the type error of the left value is returned.
C27_LeftNotBoolBeforeRight ==
    /\ evaluated = NotBoolean
    /\ LeftIsNotBool(expression, identifier_values)
    /\ ~RightOf(expression, identifier_values).ok

\* 2 + z with z unbound: the right operand's error, not a type error.
C27_RightErrorReturned ==
    /\ evaluated # NotEvaluated
    /\ expression.e \in {"Op", "Comp"}
    /\ LeftOf(expression, identifier_values).ok
    /\ ~RightOf(expression, identifier_values).ok
    /\ evaluated = RightOf(expression, identifier_values)

(***************************************************************************)
(* C28.  Evaluating AND / OR returns a ValidationError whenever either     *)
(* operand evaluates to a non-Bool value, even when the other operand      *)
(* alone would determine the result (false AND x, true OR x); when both    *)
(* operands are Bool the result is the Bool conjunction / disjunction.     *)
(***************************************************************************)
EvaluatesTo(exp, binding, type) ==
    evaluate(exp, binding).ok /\ evaluate(exp, binding).value.t = type

EvaluatesToNonBool(exp, binding) ==
    evaluate(exp, binding).ok /\ evaluate(exp, binding).value.t # "Bool"

\* The Bool an operand evaluates to.
TruthOf(exp, binding) == evaluate(exp, binding).value = Value_Bool(TRUE)

C28_LogicNeedsBools ==
    (evaluated # NotEvaluated /\ expression.e = "LogicOp") =>
        /\ (\/ EvaluatesToNonBool(expression.exp1, identifier_values)
            \/ EvaluatesToNonBool(expression.exp2, identifier_values))
           => IsValidationError(evaluated)
        /\ (/\ EvaluatesTo(expression.exp1, identifier_values, "Bool")
            /\ EvaluatesTo(expression.exp2, identifier_values, "Bool"))
           => evaluated =
                Ok(Value_Bool(IF expression.logic_operator = "And"
                              THEN TruthOf(expression.exp1, identifier_values)
                                   /\ TruthOf(expression.exp2, identifier_values)
                              ELSE TruthOf(expression.exp1, identifier_values)
                                   \/ TruthOf(expression.exp2, identifier_values)))

\* false AND 'a': the left operand alone would give false.
C28_Witness ==
    /\ expression = Expr_LogicOp(Expr_Value(Value_Bool(FALSE)), "And",
                                 Expr_Value(Value_Str(<< 97 >>)))
    /\ IsValidationError(evaluated)

\* true OR 2.
C28_TrueOrNonBool ==
    /\ expression = Expr_LogicOp(Expr_Value(Value_Bool(TRUE)), "Or",
                                 Expr_Value(Value_Int(2)))
    /\ IsValidationError(evaluated)

\* 2 AND false: the left operand is the one that is not Bool.
C28_NonBoolAndFalse ==
    /\ expression = Expr_LogicOp(Expr_Value(Value_Int(2)), "And",
                                 Expr_Value(Value_Bool(FALSE)))
    /\ IsValidationError(evaluated)

\* true AND false = false, false OR true = true.
C28_Conjunction ==
    /\ expression = Expr_LogicOp(Expr_Value(Value_Bool(TRUE)), "And",
                                 Expr_Value(Value_Bool(FALSE)))
    /\ evaluated = Ok(Value_Bool(FALSE))

C28_Disjunction ==
    /\ expression = Expr_LogicOp(Expr_Value(Value_Bool(FALSE)), "Or",
                                 Expr_Value(Value_Bool(TRUE)))
    /\ evaluated = Ok(Value_Bool(TRUE))

====
